---- MODULE Spec2Model ----
(***************************************************************************)
(* The subconscious daemon of collaborative-coding-agent: the session      *)
(* scanner, the inference gateway client and the strict-priority cycle     *)
(* loop of src/subconscious-daemon.                                        *)
(***************************************************************************)
EXTENDS Integers, Sequences, FiniteSets, TLC

(* ---------------------------------------------------------------- bounds *)

\* Session directories present under sessions_dir; directory names sort as 1 < 2 < ...
NumSessions == 2
\* A process starts at most MaxErrors + 1 faulted cycles.
MaxErrors == 2
\* Training examples of one session in the queue before Extract is no longer started.
MaxQueue == 2
\* Bullets the playbook may hold.
MaxBullets == 1
\* Hours the clock advances in one step.
TickHours == 12

(* ------------------------------------------------------ program constants *)

\* daemon.py:509  timedelta(hours=24)
ReanalyzeHours == 24
\* daemon.py:577  timedelta(hours=23)
EvalHours == 23
\* daemon.py:465  files of fewer than 10 lines are skipped
MinLines == 10
\* daemon.py:532  sessions[:5]
ReanalyzeBatch == 5

Sessions == 1..NumSessions

Min(a, b) == IF a < b THEN a ELSE b

Range(q) == {q[i] : i \in 1..Len(q)}

\* sorted(...) of a set of directory names
RECURSIVE SortedFrom(_)
SortedFrom(S) ==
  IF S = {} THEN <<>>
  ELSE LET m == CHOOSE x \in S : \A y \in S : x <= y
       IN <<m>> \o SortedFrom(S \ {m})

\* the set is taken once, then sorted
SortedSeq(S) == CHOOSE q \in {SortedFrom(T) : T \in {S}} : TRUE

Take(q, n) == SubSeq(q, 1, Min(n, Len(q)))

(* ------------------------------------------------- session directories *)

\* The content of a session's .agents/state.json, as far as the scanner reads it:
\*   json          "absent" (no file), "invalid" (not JSON), "nonobject" (JSON, but no
\*                 object), "object"
\*   completed_at  "missing", "empty" (""), "ts" (a non-empty timestamp)
\*   dod_object    whether the "dod" field is an object (absent counts as an object: {})
\*   criteria      the "passed" flags of dod.criteria
MarkerNonObject == [json |-> "nonobject", completed_at |-> "missing", dod_object |-> TRUE,  criteria |-> <<>>]
MarkerOpenPass  == [json |-> "object",    completed_at |-> "missing", dod_object |-> TRUE,  criteria |-> <<TRUE>>]
MarkerOpenBadDod == [json |-> "object",   completed_at |-> "missing", dod_object |-> FALSE, criteria |-> <<>>]
MarkerEmptyTs   == [json |-> "object",    completed_at |-> "empty",   dod_object |-> TRUE,  criteria |-> <<TRUE, FALSE>>]
MarkerDonePass  == [json |-> "object",    completed_at |-> "ts",      dod_object |-> TRUE,  criteria |-> <<TRUE, TRUE>>]
MarkerDoneFail  == [json |-> "object",    completed_at |-> "ts",      dod_object |-> TRUE,  criteria |-> <<TRUE, FALSE>>]

\* the markers the session directories of the model hold
Markers == {MarkerNonObject, MarkerOpenPass, MarkerOpenBadDod,
            MarkerEmptyTs, MarkerDonePass, MarkerDoneFail}

\* Line counts of the *.py source files of a session directory.
SourceFileLines == <<9, 10>>

\* state.get("completed_at") is truthy
Truthy(completed_at) == completed_at = "ts"

(* ------------------------------------------------------ SessionScanner *)

\* _save_processed: json.dumps of list(self._processed)
SaveProcessed(mem) == SortedSeq(mem)

\* _load_processed that forgets the file's content
LoadProcessed_Mut(file) == {}

\* _load_processed: set(data.get("processed", []))
LoadProcessed(file) == Range(file)

\* What find_new_sessions does for one directory: "raise", "take" or "skip".
NewSessionStep(m, isProcessed) ==
  IF isProcessed THEN "skip"
  ELSE IF m.json = "absent" THEN "skip"
  ELSE IF m.json = "invalid" THEN "skip"
  ELSE IF m.json = "nonobject" THEN "raise"
  ELSE IF Truthy(m.completed_at) THEN "take"
  ELSE "skip"

\* find_new_sessions that walks the directories from the last name to the first
FindNewSessions_Mut(mk, processed) ==
  LET step(s) == NewSessionStep(mk[s], s \in processed)
      asc == SortedSeq({s \in Sessions : step(s) = "take"})
  IN IF \E s \in Sessions : step(s) = "raise"
     THEN [raised |-> TRUE, list |-> <<>>]
     ELSE [raised |-> FALSE, list |-> [i \in 1..Len(asc) |-> asc[Len(asc) + 1 - i]]]

\* find_new_sessions: [raised, list]
FindNewSessions(mk, processed) ==
  LET step(s) == NewSessionStep(mk[s], s \in processed)
  IN IF \E s \in Sessions : step(s) = "raise"
     THEN [raised |-> TRUE, list |-> <<>>]
     ELSE [raised |-> FALSE, list |-> SortedSeq({s \in Sessions : step(s) = "take"})]

\* find_all_sessions: every directory holding a state.json
FindAllSessions(mk) == SortedSeq({s \in DOMAIN mk : mk[s].json # "absent"})

\* number of criteria with passed = true
RECURSIVE CountPassed(_)
CountPassed(cs) ==
  IF cs = <<>> THEN 0
  ELSE (IF Head(cs) THEN 1 ELSE 0) + CountPassed(Tail(cs))

\* parse_session without the test that there is a criterion
ParseSession_Mut(m) ==
  IF m.json \in {"absent", "invalid"} THEN
    [kind |-> "none", success |-> FALSE, completed |-> FALSE, dod_passed |-> 0, dod_total |-> 0]
  ELSE IF m.json = "nonobject" \/ ~m.dod_object THEN
    [kind |-> "raise", success |-> FALSE, completed |-> FALSE, dod_passed |-> 0, dod_total |-> 0]
  ELSE
    [kind |-> "trace",
     success |-> (CountPassed(m.criteria) = Len(m.criteria)),
     completed |-> Truthy(m.completed_at),
     dod_passed |-> CountPassed(m.criteria),
     dod_total |-> Len(m.criteria)]

\* parse_session: kind "none" (returns None), "raise" or "trace"
ParseSession(m) ==
  IF m.json \in {"absent", "invalid"} THEN
    [kind |-> "none", success |-> FALSE, completed |-> FALSE, dod_passed |-> 0, dod_total |-> 0]
  ELSE IF m.json = "nonobject" \/ ~m.dod_object THEN
    [kind |-> "raise", success |-> FALSE, completed |-> FALSE, dod_passed |-> 0, dod_total |-> 0]
  ELSE
    [kind |-> "trace",
     success |-> (CountPassed(m.criteria) = Len(m.criteria) /\ Len(m.criteria) > 0),
     completed |-> Truthy(m.completed_at),
     dod_passed |-> CountPassed(m.criteria),
     dod_total |-> Len(m.criteria)]

(* -------------------------------------------------------- OllamaClient *)

\* What the gateway does with one request.
GatewayOutcomes == {"timeout", "transport_error", "empty", "unparseable",
                    "json_falsy", "json_nonobject",
                    "object_badshape", "object_empty", "object_items"}

\* generate: the response text, "" on a timeout or any other failure
Generate(o) ==
  IF o \in {"timeout", "transport_error", "empty"} THEN "" ELSE o

\* generate_json: "None", or the value json.loads returned
GenerateJson(o) ==
  LET raw == Generate(o)
  IN IF raw = "" THEN "None"
     ELSE IF raw = "unparseable" THEN "None"
     ELSE raw

\* is_available, by what the /api/tags probe answered
ProbeOutcomes == {"unreachable", "http_error", "no_models", "other_model", "model_listed"}

IsAvailable(p) ==
  IF p = "unreachable" THEN FALSE
  ELSE IF p = "http_error" THEN FALSE
  ELSE IF p = "model_listed" THEN TRUE
  ELSE p = "other_model"

(* ------------------------------------------------ pending predicates *)

\* The cursor files hold JSON lists; the tasks read them back as sets.
ReadExtracted(file) == Range(file)

\* _has_unextracted_sessions over the rest q of find_all_sessions: "true", "false", "raise"
RECURSIVE HasUnextractedFrom(_, _, _)
HasUnextractedFrom(q, mk, extracted) ==
  IF q = <<>> THEN "false"
  ELSE IF Head(q) \in extracted THEN HasUnextractedFrom(Tail(q), mk, extracted)
  ELSE LET t == ParseSession(mk[Head(q)])
       IN IF t.kind = "raise" THEN "raise"
          ELSE IF t.kind = "trace" /\ t.success THEN "true"
          ELSE HasUnextractedFrom(Tail(q), mk, extracted)

HasUnextractedSessions(mk, file) ==
  HasUnextractedFrom(FindAllSessions(mk), mk, ReadExtracted(file))

\* _has_sessions_to_reanalyze; re is reanalysis_state.json: [exists, age],
\* age the hours since last_run
HasSessionsToReanalyze(mk, re) ==
  IF ~re.exists THEN Len(FindAllSessions(mk)) > 0
  ELSE IF re.age < ReanalyzeHours THEN FALSE
  ELSE TRUE

\* _is_eval_time; ev is last_eval.json: [exists, age]
IsEvalTime(ev) ==
  IF ~ev.exists THEN TRUE
  ELSE ev.age > EvalHours

\* _execute_next_task: the class the if-chain runs, "idle" when it returns False,
\* "fault" when one of its checks raises
NextTask(mk, processed, extractedF, re, ev) ==
  LET new == FindNewSessions(mk, processed)
      hu  == HasUnextractedSessions(mk, extractedF)
  IN IF new.raised THEN "fault"
     ELSE IF new.list # <<>> THEN "reflect"
     ELSE IF hu = "raise" THEN "fault"
     ELSE IF hu = "true" THEN "extract"
     ELSE IF HasSessionsToReanalyze(mk, re) THEN "reanalyze"
     ELSE IF IsEvalTime(ev) THEN "evaluate"
     ELSE "idle"

\* self.state with the P4 member taken for the P7 one
TaskState_Mut(task) ==
  IF task = "reflect" THEN "REFLECTING"
  ELSE IF task = "extract" THEN "EXTRACTING"
  ELSE IF task = "reanalyze" THEN "REANALYZING"
  ELSE "BENCHMARKING"

\* self.state for each task class
TaskState(task) ==
  IF task = "reflect" THEN "REFLECTING"
  ELSE IF task = "extract" THEN "EXTRACTING"
  ELSE IF task = "reanalyze" THEN "REANALYZING"
  ELSE "EVALUATING"

(* ------------------------------------------------------------ Extract *)

\* training examples one successful session yields: its source files of >= MinLines lines
PairsOf(lines) == Cardinality({i \in 1..Len(lines) : ~(lines[i] < MinLines)})

\* the loop of _extract_training_pairs over the rest q of find_all_sessions;
\* qd counts the examples appended to the queue per session
RECURSIVE ExtractFrom(_, _, _, _)
ExtractFrom(q, mk, extracted, qd) ==
  IF q = <<>> THEN [raised |-> FALSE, extracted |-> extracted, queue |-> qd]
  ELSE LET s == Head(q)
           t == ParseSession(mk[s])
       IN IF s \in extracted THEN ExtractFrom(Tail(q), mk, extracted, qd)
          ELSE IF t.kind = "raise" THEN [raised |-> TRUE, extracted |-> extracted, queue |-> qd]
          ELSE IF t.kind = "none" \/ ~t.success
            THEN ExtractFrom(Tail(q), mk, extracted \cup {s}, qd)
          ELSE ExtractFrom(Tail(q), mk, extracted \cup {s},
                           [qd EXCEPT ![s] = @ + PairsOf(SourceFileLines)])

ExtractTrainingPairs(mk, file, qd) ==
  ExtractFrom(FindAllSessions(mk), mk, ReadExtracted(file), qd)

(* -------------------------------------------- Generator and Reflector *)

\* What the caller of _generate_analysis does with the value generate_json returned:
\* "no_analysis", "raise" (analysis.get on a value that is no dict),
\* "no_observations" (_reflect_on_analysis returns []) or "observations"
AnalysisStep(v) ==
  IF v \in {"None", "json_falsy"} THEN "no_analysis"
  ELSE IF v = "json_nonobject" THEN "raise"
  ELSE IF v = "object_empty" THEN "no_observations"
  ELSE "observations"

\* What _reflect_on_analysis and the Curator loop do with the Reflector's value:
\* "empty" (no proposal), "raise" or "proposals"
ProposalStep(v) ==
  IF v \in {"None", "json_falsy"} THEN "empty"
  ELSE IF v \in {"json_nonobject", "object_badshape"} THEN "raise"
  ELSE IF v = "object_empty" THEN "empty"
  ELSE "proposals"

\* the loop of _reanalyze_sessions without the test of session.success
RECURSIVE ReanalyzeNext_Mut(_, _)
ReanalyzeNext_Mut(q, mk) ==
  IF q = <<>> THEN [kind |-> "done", s |-> 0, rest |-> <<>>]
  ELSE LET t == ParseSession(mk[Head(q)])
       IN IF t.kind = "raise" THEN [kind |-> "raise", s |-> 0, rest |-> <<>>]
          ELSE IF t.kind = "none" THEN ReanalyzeNext_Mut(Tail(q), mk)
          ELSE [kind |-> "work", s |-> Head(q), rest |-> Tail(q)]

\* the rest of the loop of _reanalyze_sessions up to its next Generator call:
\* "raise", "done" (loop over) or "work" on session s with rest left
RECURSIVE ReanalyzeNext(_, _)
ReanalyzeNext(q, mk) ==
  IF q = <<>> THEN [kind |-> "done", s |-> 0, rest |-> <<>>]
  ELSE LET t == ParseSession(mk[Head(q)])
       IN IF t.kind = "raise" THEN [kind |-> "raise", s |-> 0, rest |-> <<>>]
          ELSE IF t.kind = "none" \/ t.success THEN ReanalyzeNext(Tail(q), mk)
          ELSE [kind |-> "work", s |-> Head(q), rest |-> Tail(q)]

(* ---------------------------------------------------------------- state *)

VARIABLES
  marker,        \* session directory -> its state.json
  processed,     \* SessionScanner._processed
  processedFile, \* processed_sessions.json: the "processed" list
  extractedFile, \* extracted_sessions.json: the "extracted" list
  queue,         \* training examples appended to the queue, per source session
  reanalysis,    \* reanalysis_state.json
  lastEval,      \* last_eval.json
  bullets,       \* number of bullets of self.playbook
  playbookFile,  \* number of bullets of the persisted playbook document
  state,         \* self.state
  pc,            \* where run() stands
  cur,           \* the session the task in flight works on (0: none)
  todo,          \* the sessions _reanalyze_sessions still has to visit
  running,       \* self._running
  killSwitch,    \* the kill switch file exists
  errors,        \* self.stats["errors"]
  marked,        \* the sessions mark_processed was ever called with
  pb             \* the Playbook object and its document, where an operation on it is followed

vars == <<marker, processed, processedFile, extractedFile, queue, reanalysis, lastEval,
          bullets, playbookFile, state, pc, cur, todo, running, killSwitch, errors,
          marked, pb>>

\* what the daemon process reads and writes, as opposed to its environment
daemonVars == <<processed, processedFile, extractedFile, queue, reanalysis, lastEval,
                bullets, playbookFile, state, pc, cur, todo, errors, marked>>

InFlight == {"gen", "ref", "re_gen", "re_ref"}

Init ==
  /\ marker \in [Sessions -> Markers]
  /\ processed = {}
  /\ processedFile = <<>>
  /\ extractedFile = <<>>
  /\ queue = [s \in Sessions |-> 0]
  /\ reanalysis = [exists |-> FALSE, age |-> 0]
  /\ lastEval = [exists |-> FALSE, age |-> 0]
  /\ bullets = 0
  /\ playbookFile = 0
  /\ state = "STARTING"
  /\ pc = "start"
  /\ cur = 0
  /\ todo = <<>>
  /\ running = TRUE
  /\ killSwitch = FALSE
  /\ errors = 0
  /\ marked = {}
  /\ pb = <<>>

(* ----------------------------------------------------------- the loop *)

\* the top of a cycle without the kill switch check
LoopContinues_Mut(r, k) == r

\* `while self._running` and the kill switch check at the top of a cycle
LoopContinues(r, k) == r /\ ~k

\* the classes whose pending check holds
PendingClasses ==
  {c \in {"reflect"} :
      LET new == FindNewSessions(marker, processed) IN ~new.raised /\ new.list # <<>>}
  \cup {c \in {"extract"} : HasUnextractedSessions(marker, extractedFile) = "true"}
  \cup {c \in {"reanalyze"} : HasSessionsToReanalyze(marker, reanalysis)}
  \cup {c \in {"evaluate"} : IsEvalTime(lastEval)}

\* a fault the except clause does not catch: run() ends
CycleError_Mut ==
  /\ errors' = errors
  /\ pc' = "exited"

\* the except branch of run(): count the fault, then back off
CycleError ==
  /\ errors' = errors + 1
  /\ pc' = "backoff"

\* a cycle that ran through: back to the top of the loop
CycleDone ==
  /\ errors' = errors
  /\ pc' = "top"

\* mark_processed that forgets the session
MarkProcessed_Mut(s) ==
  /\ processed' = processed
  /\ processedFile' = processedFile
  /\ marked' = marked \cup {s}

\* mark_processed
MarkProcessed(s) ==
  /\ processed' = processed \cup {s}
  /\ processedFile' = SaveProcessed(processed \cup {s})
  /\ marked' = marked \cup {s}

AtTop(task) ==
  /\ pc = "top"
  /\ LoopContinues(running, killSwitch)
  /\ errors < MaxErrors
  /\ NextTask(marker, processed, extractedFile, reanalysis, lastEval) = task

\* run(): the connectivity check
Startup ==
  /\ pc = "start"
  /\ \E p \in ProbeOutcomes :
       IF IsAvailable(p)
       THEN state' = "RUNNING" /\ pc' = "top"
       ELSE state' = state /\ pc' = "failed"
  /\ UNCHANGED <<marker, processed, processedFile, extractedFile, queue, reanalysis,
                 lastEval, bullets, playbookFile, cur, todo, running, killSwitch, errors,
                 marked>>
  /\ UNCHANGED pb

\* run(): the loop ends on the stop flag or the kill switch
LoopExit ==
  /\ pc = "top"
  /\ ~LoopContinues(running, killSwitch)
  /\ state' = "STOPPED"
  /\ pc' = "exited"
  /\ UNCHANGED <<marker, processed, processedFile, extractedFile, queue, reanalysis,
                 lastEval, bullets, playbookFile, cur, todo, running, killSwitch, errors,
                 marked>>
  /\ UNCHANGED pb

\* a check of _execute_next_task raises
ScanFault ==
  /\ AtTop("fault")
  /\ CycleError
  /\ UNCHANGED <<marker, processed, processedFile, extractedFile, queue, reanalysis,
                 lastEval, bullets, playbookFile, state, cur, todo, running, killSwitch,
                 marked>>
  /\ UNCHANGED pb

\* P0: _reflect_on_session up to its Generator call
StartReflect ==
  /\ AtTop("reflect")
  /\ LET s == Head(FindNewSessions(marker, processed).list)
         t == ParseSession(marker[s])
     IN /\ state' = TaskState("reflect")
        /\ IF t.kind = "raise"
           THEN CycleError /\ cur' = 0 /\ UNCHANGED <<processed, processedFile, marked>>
           ELSE IF t.kind = "none"
           THEN CycleDone /\ cur' = 0 /\ MarkProcessed(s)
           ELSE errors' = errors /\ pc' = "gen" /\ cur' = s
                /\ UNCHANGED <<processed, processedFile, marked>>
  /\ UNCHANGED <<marker, extractedFile, queue, reanalysis, lastEval, bullets,
                 playbookFile, todo, running, killSwitch>>
  /\ UNCHANGED pb

\* the Curator loop's end: playbook.save() and mark_processed
Curate(added) ==
  /\ state' = "CURATING"
  /\ bullets' = bullets + added
  /\ playbookFile' = bullets + added
  /\ MarkProcessed(cur)
  /\ CycleDone
  /\ cur' = 0

\* P0: the Generator's answer arrives
Generator ==
  /\ pc = "gen"
  /\ \E o \in GatewayOutcomes :
       LET a == AnalysisStep(GenerateJson(o))
       IN IF a = "no_analysis"
          THEN /\ MarkProcessed(cur)
               /\ CycleDone
               /\ cur' = 0
               /\ UNCHANGED <<state, bullets, playbookFile>>
          ELSE IF a = "raise"
          THEN /\ CycleError
               /\ cur' = 0
               /\ UNCHANGED <<state, bullets, playbookFile, processed, processedFile,
                 marked>>
          ELSE IF a = "no_observations"
          THEN Curate(0)
          ELSE /\ pc' = "ref"
               /\ UNCHANGED <<state, bullets, playbookFile, processed, processedFile,
                              marked, errors, cur>>
  /\ UNCHANGED <<marker, extractedFile, queue, reanalysis, lastEval, todo, running,
                 killSwitch>>
  /\ UNCHANGED pb

\* P0: the Reflector's answer arrives; the Curator follows
Reflector ==
  /\ pc = "ref"
  /\ \E o \in GatewayOutcomes :
       LET v == GenerateJson(o)
           p == ProposalStep(v)
       IN IF p = "raise"
          THEN /\ CycleError
               /\ cur' = 0
               /\ state' \in (IF v = "object_badshape"
                              THEN {"REFLECTING", "CURATING"} ELSE {"REFLECTING"})
               /\ UNCHANGED <<bullets, playbookFile, processed, processedFile, marked>>
          ELSE IF p = "empty"
          THEN Curate(0)
          ELSE \E added \in (IF bullets < MaxBullets THEN {0, 1} ELSE {0}) : Curate(added)
  /\ UNCHANGED <<marker, extractedFile, queue, reanalysis, lastEval, todo, running,
                 killSwitch>>
  /\ UNCHANGED pb

\* P2: _extract_training_pairs
RunExtract ==
  /\ AtTop("extract")
  /\ \A s \in Sessions : queue[s] < MaxQueue
  /\ state' = TaskState("extract")
  /\ LET r == ExtractTrainingPairs(marker, extractedFile, queue)
     IN /\ queue' = r.queue
        /\ IF r.raised
           THEN CycleError /\ extractedFile' = extractedFile
           ELSE CycleDone /\ extractedFile' = SortedSeq(r.extracted)
  /\ UNCHANGED <<marker, processed, processedFile, reanalysis, lastEval, bullets,
                 playbookFile, cur, todo, running, killSwitch, marked>>
  /\ UNCHANGED pb

\* P3: _reanalyze_sessions from the session list q on, up to its next Generator call
\* or to its end
ReanalyzeContinue(q) ==
  LET n == ReanalyzeNext(q, marker)
  IN IF n.kind = "raise"
     THEN CycleError /\ cur' = 0 /\ todo' = <<>> /\ reanalysis' = reanalysis
     ELSE IF n.kind = "done"
     THEN /\ CycleDone
          /\ cur' = 0
          /\ todo' = <<>>
          /\ reanalysis' = [exists |-> TRUE, age |-> 0]
     ELSE /\ errors' = errors
          /\ pc' = "re_gen"
          /\ cur' = n.s
          /\ todo' = n.rest
          /\ reanalysis' = reanalysis

StartReanalyze ==
  /\ AtTop("reanalyze")
  /\ state' = TaskState("reanalyze")
  /\ ReanalyzeContinue(Take(FindAllSessions(marker), ReanalyzeBatch))
  /\ UNCHANGED <<marker, processed, processedFile, extractedFile, queue, lastEval,
                 bullets, playbookFile, running, killSwitch, marked>>
  /\ UNCHANGED pb

\* P3: the Generator's answer arrives
ReanalyzeGenerator ==
  /\ pc = "re_gen"
  /\ \E o \in GatewayOutcomes :
       LET a == AnalysisStep(GenerateJson(o))
       IN IF a = "raise"
          THEN CycleError /\ cur' = 0 /\ todo' = <<>> /\ reanalysis' = reanalysis
          ELSE IF a = "observations"
          THEN pc' = "re_ref" /\ UNCHANGED <<errors, cur, todo, reanalysis>>
          ELSE ReanalyzeContinue(todo)
  /\ UNCHANGED <<marker, processed, processedFile, extractedFile, queue, lastEval,
                 bullets, playbookFile, state, running, killSwitch, marked>>
  /\ UNCHANGED pb

\* P3: the Reflector's answer arrives; bullets that are no duplicates are added
ReanalyzeReflector ==
  /\ pc = "re_ref"
  /\ \E o \in GatewayOutcomes :
       LET p == ProposalStep(GenerateJson(o))
       IN IF p = "raise"
          THEN /\ CycleError /\ cur' = 0 /\ todo' = <<>> /\ reanalysis' = reanalysis
               /\ UNCHANGED <<bullets, playbookFile>>
          ELSE IF p = "empty"
          THEN ReanalyzeContinue(todo) /\ UNCHANGED <<bullets, playbookFile>>
          ELSE \E added \in (IF bullets < MaxBullets THEN {0, 1} ELSE {0}) :
                 /\ bullets' = bullets + added
                 /\ playbookFile' = bullets + added
                 /\ ReanalyzeContinue(todo)
  /\ UNCHANGED <<marker, processed, processedFile, extractedFile, queue, lastEval,
                 state, running, killSwitch, marked>>
  /\ UNCHANGED pb

\* P7: _self_evaluate_playbook; prune_stale and deduplicate remove some bullets
RunEvaluate ==
  /\ AtTop("evaluate")
  /\ state' = TaskState("evaluate")
  /\ \E removed \in 0..bullets :
       /\ bullets' = bullets - removed
       /\ playbookFile' = bullets - removed
  /\ lastEval' = [exists |-> TRUE, age |-> 0]
  /\ CycleDone
  /\ UNCHANGED <<marker, processed, processedFile, extractedFile, queue, reanalysis,
                 cur, todo, running, killSwitch, marked>>
  /\ UNCHANGED pb

\* nothing pending: sleep scan_interval
Idle ==
  /\ AtTop("idle")
  /\ state' = "SLEEPING"
  /\ pc' = "sleep"
  /\ UNCHANGED <<marker, processed, processedFile, extractedFile, queue, reanalysis,
                 lastEval, bullets, playbookFile, cur, todo, running, killSwitch, errors,
                 marked>>
  /\ UNCHANGED pb

\* the idle sleep ends
WakeUp ==
  /\ pc = "sleep"
  /\ pc' = "top"
  /\ UNCHANGED <<marker, processed, processedFile, extractedFile, queue, reanalysis,
                 lastEval, bullets, playbookFile, state, cur, todo, running, killSwitch,
                 errors, marked>>
  /\ UNCHANGED pb

\* the backoff sleep of the except branch ends
BackoffDone ==
  /\ pc = "backoff"
  /\ pc' = "top"
  /\ UNCHANGED <<marker, processed, processedFile, extractedFile, queue, reanalysis,
                 lastEval, bullets, playbookFile, state, cur, todo, running, killSwitch,
                 errors, marked>>
  /\ UNCHANGED pb

(* ---------------------------------------------------- the environment *)

\* handle_shutdown: SIGTERM or SIGINT reaches the process
HandleShutdown ==
  /\ pc \notin {"exited", "failed"}
  /\ running
  /\ running' = FALSE
  /\ UNCHANGED <<marker, killSwitch>>
  /\ UNCHANGED daemonVars
  /\ UNCHANGED pb

\* somebody creates the kill switch file
CreateKillSwitch ==
  /\ ~killSwitch
  /\ killSwitch' = TRUE
  /\ UNCHANGED <<marker, running>>
  /\ UNCHANGED daemonVars
  /\ UNCHANGED pb

\* time passes: the cursor timestamps age
Tick ==
  /\ \/ reanalysis.exists /\ reanalysis.age < ReanalyzeHours
     \/ lastEval.exists /\ lastEval.age < ReanalyzeHours
  /\ reanalysis' = IF reanalysis.exists
                   THEN [reanalysis EXCEPT !.age = Min(@ + TickHours, ReanalyzeHours)]
                   ELSE reanalysis
  /\ lastEval' = IF lastEval.exists
                 THEN [lastEval EXCEPT !.age = Min(@ + TickHours, ReanalyzeHours)]
                 ELSE lastEval
  /\ UNCHANGED <<marker, processed, processedFile, extractedFile, queue, bullets,
                 playbookFile, state, pc, cur, todo, running, killSwitch, errors,
                 marked>>
  /\ UNCHANGED pb

\* the orchestrator carries a session on: the last criterion of a running session
\* passes, or the session is finished and completed_at is written
CompleteSession ==
  /\ \E s \in Sessions :
       /\ \/ marker[s] = MarkerEmptyTs /\ marker' = [marker EXCEPT ![s] = MarkerOpenPass]
          \/ marker[s] = MarkerOpenPass /\ marker' = [marker EXCEPT ![s] = MarkerDonePass]
  /\ UNCHANGED <<running, killSwitch>>
  /\ UNCHANGED daemonVars
  /\ UNCHANGED pb

\* the process is started again: __init__ reloads the cursors and the playbook
Restart ==
  /\ pc \in {"exited", "failed"}
  /\ state' = "STARTING"
  /\ pc' = "start"
  /\ processed' = LoadProcessed(processedFile)
  /\ bullets' = playbookFile
  /\ running' = TRUE
  /\ errors' = 0
  /\ cur' = 0
  /\ todo' = <<>>
  /\ UNCHANGED <<marker, processedFile, extractedFile, queue, reanalysis, lastEval,
                 playbookFile, killSwitch, marked>>
  /\ UNCHANGED pb

Next ==
  \/ Startup
  \/ LoopExit
  \/ ScanFault
  \/ StartReflect
  \/ Generator
  \/ Reflector
  \/ RunExtract
  \/ StartReanalyze
  \/ ReanalyzeGenerator
  \/ ReanalyzeReflector
  \/ RunEvaluate
  \/ Idle
  \/ WakeUp
  \/ BackoffDone
  \/ HandleShutdown
  \/ CreateKillSwitch
  \/ Tick
  \/ CompleteSession
  \/ Restart

Spec == Init /\ [][Next]_vars

(* --------------------------------------------------------------- claims *)

TaskOrder == <<"reflect", "extract", "reanalyze", "evaluate">>

\* the first class of TaskOrder in P, "none" if P is empty
FirstPending(P) ==
  IF \E i \in 1..Len(TaskOrder) : TaskOrder[i] \in P
  THEN TaskOrder[CHOOSE i \in 1..Len(TaskOrder) :
                   /\ TaskOrder[i] \in P
                   /\ \A j \in 1..(i - 1) : TaskOrder[j] \notin P]
  ELSE "none"

\* a step in which the daemon ran no task: nothing but the clock touched its files
NoTaskRan ==
  /\ UNCHANGED <<processed, processedFile, extractedFile, queue, bullets, playbookFile,
                 errors, cur, todo, marked>>
  /\ reanalysis'.exists = reanalysis.exists
  /\ reanalysis'.age >= reanalysis.age
  /\ lastEval'.exists = lastEval.exists
  /\ lastEval'.age >= lastEval.age

\* a step of the loop that starts a cycle: from the top of the loop it starts a task,
\* faults in a pending check, or goes to sleep
CycleStep ==
  /\ pc = "top"
  /\ pc' # "exited"
  /\ pc' # "top" \/ ~NoTaskRan

\* C1: every cycle executes exactly the first class, in the order Reflect, Extract,
\* Reanalyze, Self-evaluate, whose pending check holds, and executes no task if and
\* only if no class is pending.
C1_FirstPendingRuns ==
  [][CycleStep => LET first == FirstPending(PendingClasses)
                  IN \/ first = "reflect" /\ StartReflect
                     \/ first = "extract" /\ RunExtract
                     \/ first = "reanalyze" /\ StartReanalyze
                     \/ first = "evaluate" /\ RunEvaluate
                     \/ first = "none" /\ Idle]_vars

\* C2: a session Reflect was run on is in the persisted processed set once its cycle
\* is over, whatever the gateway answered, so that Reflect picks no session twice.
C2_ReflectMarksProcessed ==
  [][(pc \in {"gen", "ref"} /\ pc' \notin {"gen", "ref"})
       => cur \in Range(processedFile')]_vars

\* C3: find_new_sessions returns no session whose marker lacks a non-empty
\* completed_at and no session mark_processed was called with, also after a restart
\* reloaded processed_sessions.json.
C3_NewSessionsCompleteUnprocessed ==
  LET new == FindNewSessions(marker, processed).list
  IN \A i \in 1..Len(new) :
       /\ marker[new[i]].json = "object"
       /\ marker[new[i]].completed_at = "ts"
       /\ new[i] \notin marked

\* a restarted process scans while one session is marked and another is new
C3_Witness ==
  /\ state = "STARTING"
  /\ marked # {}
  /\ FindNewSessions(marker, processed).list # <<>>

\* C4: once training examples of a session are in the queue, no later Extract run
\* appends an example of that session again.
C4_ExtractedOnce ==
  [][\A s \in Sessions : queue[s] > 0 => queue'[s] = queue[s]]_vars

\* a completed, successful session (by its marker) that is not in the extracted set
CompletedSuccessfulUnextracted(s) ==
  /\ marker[s].json = "object"
  /\ marker[s].dod_object
  /\ marker[s].completed_at = "ts"
  /\ Len(marker[s].criteria) > 0
  /\ \A i \in 1..Len(marker[s].criteria) : marker[s].criteria[i]
  /\ s \notin Range(extractedFile)

\* C5: Extract is pending exactly when a completed, successful session is not in the
\* extracted set; a session without a completion timestamp never makes Extract
\* pending and never has training examples emitted. (The check is read where the loop
\* takes it, at the top of a cycle; where it raises it gives no answer, and nothing is
\* asked of it here.)
C5_ExtractPendingIffCompleted ==
  LET hu == HasUnextractedSessions(marker, extractedFile)
  IN /\ (pc = "top" /\ hu = "true")
          => \E s \in Sessions : CompletedSuccessfulUnextracted(s)
     /\ (pc = "top" /\ hu = "false")
          => ~\E s \in Sessions : CompletedSuccessfulUnextracted(s)
     /\ \A s \in Sessions : queue[s] > 0 => marker[s].completed_at = "ts"

TaskPhases == {"REFLECTING", "EXTRACTING", "REANALYZING", "EVALUATING"}

\* the edges of the stated state machine
StatedEdges ==
  ({"STARTING"} \X {"RUNNING", "STOPPED"})
  \cup ({"RUNNING"} \X (TaskPhases \cup {"SLEEPING", "STOPPED"}))
  \cup (TaskPhases \X {"SLEEPING", "RUNNING", "STOPPED"})
  \cup ({"SLEEPING"} \X {"RUNNING", "STOPPED"})

\* C6 as stated: the phase changes only along STARTING -> RUNNING -> task phase ->
\* SLEEPING -> RUNNING ... -> STOPPED and holds no other value. (A step to pc "start"
\* is a new process, not a phase change of the running one.)
C6_StatedEdgesOnly ==
  [][(state' # state /\ pc' # "start") => <<state, state'>> \in StatedEdges]_vars

LoopPhases == TaskPhases \cup {"RUNNING", "CURATING", "SLEEPING"}

\* the edges the loop takes
LoopEdges ==
  ({"STARTING"} \X {"RUNNING"})
  \cup (LoopPhases \X TaskPhases)
  \cup ({"REFLECTING"} \X {"CURATING"})
  \cup ((LoopPhases \ {"SLEEPING"}) \X {"SLEEPING"})
  \cup (LoopPhases \X {"STOPPED"})

\* C6, amended: the phase is always one of STARTING, RUNNING, the four task phases,
\* CURATING, SLEEPING and STOPPED, and it changes only from STARTING to RUNNING, from
\* any phase of the loop straight to the next cycle's task phase, SLEEPING or STOPPED,
\* and from REFLECTING to CURATING; RUNNING is entered from STARTING only.
C6_LoopEdgesOnly ==
  [][/\ state' \in LoopPhases \cup {"STARTING", "STOPPED"}
     /\ (state' # state /\ pc' # "start") => <<state, state'>> \in LoopEdges]_vars

\* a cycle ended in CURATING: the next task phase is entered from there
C6_Witness == state = "CURATING" /\ pc = "top"

\* C7: when the connectivity check fails at startup, the phase is STOPPED.
C7_FailedStartStops ==
  pc = "failed" => state = "STOPPED"

\* C8: the stop flag and the kill switch take effect at the top of a cycle only. A
\* task in flight (or a sleep) is never ended by them: its next step is a step of the
\* task, and a Reflect or Reanalyze that ends without a fault of its own has written
\* its cursor and the playbook. At the top of a cycle with either of them set, the
\* daemon starts no task and stops.
C8_CooperativeStop ==
  [][/\ pc \in InFlight \cup {"sleep", "backoff"} => (pc' # "exited" /\ state' # "STOPPED")
     /\ (pc \in {"gen", "ref"} /\ pc' = "top")
          => (cur \in processed' /\ cur \in Range(processedFile')
              /\ playbookFile' = bullets')
     /\ (pc \in {"re_gen", "re_ref"} /\ pc' = "top")
          => (reanalysis'.exists /\ reanalysis'.age = 0 /\ playbookFile' = bullets')
     /\ (pc = "top" /\ (~running \/ killSwitch))
          => /\ NoTaskRan
             /\ \/ state' = state /\ pc' = pc
                \/ state' = "STOPPED" /\ pc' = "exited"
     /\ (state = "STOPPED" /\ pc' # "start")
          => (NoTaskRan /\ state' = state /\ pc' = pc)]_vars

\* the stop signal has arrived while the Reflector call of a Reflect is in flight
C8_Witness == ~running /\ pc = "ref" /\ cur \notin processed

\* C9: a fault raised in a cycle is caught by the loop: the error counter goes up by
\* exactly one, the backoff sleep follows, and the loop goes on from its top; run()
\* ends only at the failed connectivity check or at the top of a cycle with the stop
\* flag or the kill switch set.
C9_FaultsCaught ==
  [][/\ (errors' # errors /\ pc' # "start")
          => (errors' = errors + 1 /\ pc' = "backoff" /\ pc \in InFlight \cup {"top"})
     /\ (pc' = "backoff" /\ pc # "backoff") => errors' = errors + 1
     /\ (pc = "backoff" /\ pc' # "backoff") => (pc' = "top" /\ state' = state)
     /\ (pc' \in {"exited", "failed"} /\ pc' # pc)
          => \/ pc = "start" /\ pc' = "failed"
             \/ pc = "top" /\ pc' = "exited" /\ (~running \/ killSwitch)]_vars

\* two cycles have faulted and the loop is at its top again
C9_Witness == errors = 2 /\ pc = "top" /\ running /\ ~killSwitch

\* C10: no gateway outcome makes Reflect or Reanalyze raise: the step that takes the
\* gateway's answer never ends in the except branch of the loop.
C10_GatewayNeverRaises ==
  [][(pc \in InFlight) => (pc' \notin {"backoff"})]_vars

(* ------------------------------------------------------------ Playbook *)

\* A bullet of the playbook, as far as the playbook's algorithms read it:
\*   id        the numeric suffix of Bullet.id
\*   content   the word set of Bullet.content (lower-cased, split at whitespace)
\*   len       the number of characters of Bullet.content
\*   helpful   helpful_count
\*   harmful   harmful_count
\*   stale     last_referenced lies before the staleness cutoff
\* Ratios are kept as fractions [num, den] with den > 0.

Frac(n, d) == [num |-> n, den |-> d]

FracLess(x, y) == x.num * y.den < y.num * x.den

FracLeq(x, y) == x.num * y.den <= y.num * x.den

FracEq(x, y) == x.num * y.den = y.num * x.den

\* Bullet.total_references
TotalReferences(b) == b.helpful + b.harmful

\* Bullet.quality_ratio without the neutral prior of a new bullet
QualityRatio_Mut(b) ==
  LET total == b.helpful + b.harmful
  IN IF total = 0 THEN Frac(2, 1) ELSE Frac(b.helpful, total)

\* Bullet.quality_ratio
QualityRatio(b) ==
  LET total == b.helpful + b.harmful
  IN IF total = 0 THEN Frac(1, 2) ELSE Frac(b.helpful, total)

\* the common words over the words of both texts counted twice where common
TextSimilarity_Mut(a, b) ==
  IF a = {} \/ b = {} THEN Frac(0, 1)
  ELSE Frac(Cardinality(a \cap b), Cardinality(a) + Cardinality(b))

\* _text_similarity: the Jaccard index of two word sets, 0.0 if one is empty
TextSimilarity(a, b) ==
  IF a = {} \/ b = {} THEN Frac(0, 1)
  ELSE Frac(Cardinality(a \cap b), Cardinality(a \cup b))

\* deduplicate, the body of the inner loop for the pair (i, j) and the rest of the
\* inner loop; st is [bullets, to_remove]
RECURSIVE DedupInner(_, _, _, _)
DedupInner(st, i, j, thr) ==
  IF j > Len(st.bullets) THEN st
  ELSE IF j \in st.to_remove THEN DedupInner(st, i, j + 1, thr)
  ELSE
    LET bi == st.bullets[i]
        bj == st.bullets[j]
    IN IF FracLeq(thr, TextSimilarity(bi.content, bj.content))
       THEN IF FracLeq(QualityRatio(bj), QualityRatio(bi))
            THEN DedupInner(
                   [bullets |-> [st.bullets EXCEPT
                                   ![i] = [bi EXCEPT !.helpful = @ + bj.helpful,
                                                     !.harmful = @ + bj.harmful]],
                    to_remove |-> st.to_remove \cup {j}], i, j + 1, thr)
            ELSE DedupInner(
                   [bullets |-> [st.bullets EXCEPT
                                   ![j] = [bj EXCEPT !.helpful = @ + bi.helpful,
                                                     !.harmful = @ + bi.harmful]],
                    to_remove |-> st.to_remove \cup {i}], i, j + 1, thr)
       ELSE DedupInner(st, i, j + 1, thr)

\* deduplicate, the outer loop from index i on
RECURSIVE DedupOuter(_, _, _)
DedupOuter(st, i, thr) ==
  IF i > Len(st.bullets) THEN st
  ELSE IF i \in st.to_remove THEN DedupOuter(st, i + 1, thr)
  ELSE DedupOuter(DedupInner(st, i, i + 1, thr), i + 1, thr)

\* the elements of q whose index is not in drop, in order
RECURSIVE KeepFrom(_, _, _)
KeepFrom(q, drop, i) ==
  IF i > Len(q) THEN <<>>
  ELSE (IF i \in drop THEN <<>> ELSE <<q[i]>>) \o KeepFrom(q, drop, i + 1)

\* deduplicate that marks the duplicates but leaves them in the section
DedupSection_Mut(bs, thr) ==
  IF Len(bs) < 2 THEN [bullets |-> bs, removed |-> 0]
  ELSE LET st == DedupOuter([bullets |-> bs, to_remove |-> {}], 1, thr)
       IN [bullets |-> st.bullets, removed |-> Cardinality(st.to_remove)]

\* deduplicate on the bullets of one section: [bullets, removed]
DedupSection(bs, thr) ==
  IF Len(bs) < 2 THEN [bullets |-> bs, removed |-> 0]
  ELSE LET st == DedupOuter([bullets |-> bs, to_remove |-> {}], 1, thr)
       IN [bullets |-> KeepFrom(st.bullets, st.to_remove, 1),
           removed |-> Cardinality(st.to_remove)]

(* --------------------------------------------- the daemon left at rest *)

\* The daemon's variables while a specification follows the playbook alone.
AtRest ==
  /\ marker = [s \in Sessions |-> MarkerDonePass]
  /\ processed = {}
  /\ processedFile = <<>>
  /\ extractedFile = <<>>
  /\ queue = [s \in Sessions |-> 0]
  /\ reanalysis = [exists |-> FALSE, age |-> 0]
  /\ lastEval = [exists |-> FALSE, age |-> 0]
  /\ bullets = 0
  /\ playbookFile = 0
  /\ state = "STARTING"
  /\ pc = "start"
  /\ cur = 0
  /\ todo = <<>>
  /\ running = TRUE
  /\ killSwitch = FALSE
  /\ errors = 0
  /\ marked = {}

restVars == <<marker, processed, processedFile, extractedFile, queue, reanalysis,
              lastEval, bullets, playbookFile, state, pc, cur, todo, running, killSwitch,
              errors, marked>>

(* ------------------------------------------ deduplicate, run and rerun *)

\* Bullets a section holds at most when deduplicate is called.
MaxSectionLen == 3
\* Consecutive deduplicate calls followed.
MaxDedupRuns == 2

\* word sets of bullet contents: the first two and the last two share two of three
\* words, the first and the last one of three
Contents == {{"a", "b"}, {"a", "b", "c"}, {"a", "c"}}

\* (helpful_count, harmful_count) of the bullets tried
CountPairs == {<<0, 0>>, <<1, 0>>, <<0, 1>>, <<2, 1>>}

\* similarity_threshold: 0, 2/3 (met exactly by two of the contents) and the default
Thresholds == {Frac(0, 1), Frac(2, 3), Frac(85, 100)}

\* the sections the calls start from; a bullet's id is its place in the section
DedupInputs(maxLen) ==
  UNION {{[i \in 1..n |-> [id |-> i, content |-> f[i][1], len |-> 0,
                          helpful |-> f[i][2][1], harmful |-> f[i][2][2],
                          stale |-> FALSE]] :
            f \in [1..n -> Contents \X CountPairs]} : n \in 0..maxLen}

DedupInit ==
  /\ AtRest
  /\ \E q \in DedupInputs(MaxSectionLen), t \in Thresholds :
       pb = [runs |-> 0, thr |-> t, input |-> q, before |-> q, bullets |-> q,
             removed |-> 0]

\* one call of deduplicate on the section
DedupRun ==
  /\ pb.runs < MaxDedupRuns
  /\ LET r == DedupSection(pb.bullets, pb.thr)
     IN pb' = [pb EXCEPT !.runs = @ + 1, !.before = pb.bullets,
                         !.bullets = r.bullets, !.removed = r.removed]
  /\ UNCHANGED restVars

DedupNext == DedupRun

DedupSpec == DedupInit /\ [][DedupNext]_vars

RECURSIVE SumHelpful(_)
SumHelpful(q) == IF q = <<>> THEN 0 ELSE Head(q).helpful + SumHelpful(Tail(q))

RECURSIVE SumHarmful(_)
SumHarmful(q) == IF q = <<>> THEN 0 ELSE Head(q).harmful + SumHarmful(Tail(q))

Similar(x, y, thr) == FracLeq(thr, TextSimilarity(x.content, y.content))

Ids(q) == {q[i].id : i \in 1..Len(q)}

\* the pairs of a section that are similar to each other and to no third bullet
LonePairs(q, thr) ==
  {p \in (1..Len(q)) \X (1..Len(q)) :
     /\ p[1] < p[2]
     /\ Similar(q[p[1]], q[p[2]], thr)
     /\ \A k \in 1..Len(q) :
          k \notin {p[1], p[2]} => (~Similar(q[k], q[p[1]], thr) /\ ~Similar(q[k], q[p[2]], thr))}

\* after a call no two bullets left in the section are similar
C11_NoSimilarPairLeft ==
  pb.runs > 0 => \A i, j \in 1..Len(pb.bullets) :
                   i < j => ~Similar(pb.bullets[i], pb.bullets[j], pb.thr)

\* of a pair that is similar to nothing else the bullet of higher quality_ratio, the
\* earlier one on a tie, is the one left
C11_BetterOfPairLeft ==
  pb.runs > 0 =>
    \A p \in LonePairs(pb.before, pb.thr) :
      LET x == pb.before[p[1]]
          y == pb.before[p[2]]
      IN IF FracLeq(QualityRatio(y), QualityRatio(x))
         THEN x.id \in Ids(pb.bullets) /\ y.id \notin Ids(pb.bullets)
         ELSE y.id \in Ids(pb.bullets) /\ x.id \notin Ids(pb.bullets)

\* the counts of the removed bullets are in the bullets left: the call changes neither
\* the sum of the helpful counts nor the sum of the harmful counts of the section
C11_CountsKept ==
  pb.runs > 0 => /\ SumHelpful(pb.bullets) = SumHelpful(pb.before)
                 /\ SumHarmful(pb.bullets) = SumHarmful(pb.before)

\* C11: deduplicate leaves no two similar bullets in a section, of a similar pair it
\* leaves the bullet of higher quality_ratio (the earlier one on a tie), and the
\* helpful and harmful counts of every bullet it removes are added into a bullet that
\* is left.
C11_DedupMerges ==
  /\ C11_NoSimilarPairLeft
  /\ C11_BetterOfPairLeft
  /\ C11_CountsKept

\* C12: a second deduplicate call with the same threshold right after a first one
\* removes no bullet and changes no counter.
C12_DedupIdempotent ==
  pb.runs >= 2 => (pb.removed = 0 /\ pb.bullets = pb.before)

\* the second call came after a first call that removed a bullet
C12_Witness ==
  pb.runs = 2 /\ Len(pb.before) < Len(pb.input) /\ Len(pb.before) >= 2

(* ------------------------------------------------------------ prune_stale *)

\* _should_prune: below this many references a bullet is kept whatever else holds
PruneMinReferences == 5
\* _should_prune: a stale bullet goes when it has fewer references than this
StaleLowUsage == 3

\* _should_prune without its first test
ShouldPrune_Mut(b, min_quality) ==
  IF FracLess(QualityRatio(b), min_quality) THEN TRUE
  ELSE IF b.stale /\ TotalReferences(b) < StaleLowUsage THEN TRUE
  ELSE FALSE

\* _should_prune whose last test forgets the usage condition: a stale bullet goes
ShouldPrune_StaleMut(b, min_quality) ==
  IF TotalReferences(b) < PruneMinReferences THEN FALSE
  ELSE IF FracLess(QualityRatio(b), min_quality) THEN TRUE
  ELSE IF b.stale THEN TRUE
  ELSE FALSE

\* _should_prune; b.stale stands for last_referenced < cutoff
ShouldPrune(b, min_quality) ==
  IF TotalReferences(b) < PruneMinReferences THEN FALSE
  ELSE IF FracLess(QualityRatio(b), min_quality) THEN TRUE
  ELSE IF b.stale /\ TotalReferences(b) < StaleLowUsage THEN TRUE
  ELSE FALSE

\* prune_stale on the bullets of one section: [bullets, pruned]
PruneSection(bs, min_quality) ==
  LET kept == SelectSeq(bs, LAMBDA b : ~ShouldPrune(b, min_quality))
  IN [bullets |-> kept, pruned |-> Len(bs) - Len(kept)]

\* (helpful_count, harmful_count) around the five-reference line
PruneCountPairs == {<<0, 0>>, <<0, 4>>, <<0, 5>>, <<1, 4>>, <<4, 1>>}

\* min_quality: nothing is below it, the default, and two that every ratio but 1, and
\* every ratio, is below
MinQualities == {Frac(0, 1), Frac(3, 10), Frac(1, 1), Frac(2, 1)}

\* the sections prune_stale is called on; every choice of stale bullets is the outcome
\* of some stale_days
PruneInputs(maxLen) ==
  UNION {{[i \in 1..n |-> [id |-> i, content |-> {"a", "b"}, len |-> 0,
                          helpful |-> f[i][1][1], harmful |-> f[i][1][2],
                          stale |-> f[i][2]]] :
            f \in [1..n -> PruneCountPairs \X BOOLEAN]} : n \in 0..maxLen}

PruneInit ==
  /\ AtRest
  /\ \E q \in PruneInputs(MaxSectionLen), mq \in MinQualities :
       pb = [runs |-> 0, min_quality |-> mq, before |-> q, bullets |-> q, pruned |-> 0]

\* one call of prune_stale on the section
PruneRun ==
  /\ pb.runs = 0
  /\ LET r == PruneSection(pb.bullets, pb.min_quality)
     IN pb' = [pb EXCEPT !.runs = 1, !.before = pb.bullets,
                         !.bullets = r.bullets, !.pruned = r.pruned]
  /\ UNCHANGED restVars

PruneNext == PruneRun

PruneSpec == PruneInit /\ [][PruneNext]_vars

\* C13: whatever stale_days and min_quality are, prune_stale leaves every bullet with
\* fewer than five references (helpful + harmful) in its section, unchanged.
C13_FewReferencesKept ==
  pb.runs > 0 =>
    \A i \in 1..Len(pb.before) :
      TotalReferences(pb.before[i]) < 5 =>
        \E k \in 1..Len(pb.bullets) : pb.bullets[k] = pb.before[i]

\* a call that pruned a bullet and kept a stale one of ratio below min_quality that
\* has four references
C13_Witness ==
  /\ pb.runs > 0
  /\ pb.pruned > 0
  /\ \E k \in 1..Len(pb.bullets) :
       /\ TotalReferences(pb.bullets[k]) = 4
       /\ pb.bullets[k].stale
       /\ FracLess(QualityRatio(pb.bullets[k]), pb.min_quality)

(* ------------------------------- the playbook object and the file it saves *)

\* Largest suffix add_bullet is followed to in a section.
MaxSuffix == 2

\* two of DEFAULT_SECTIONS
Sections == {"import_resolution", "general"}

\* self.path
Path == "playbook.json"

\* save writing straight to self.path
TmpPath_Mut == "playbook.json"

\* the temporary file save writes, self.path.with_suffix(".tmp")
TmpPath == "playbook.tmp"
\* what a file holds: nothing (no such file), a document cut short, or a document
NoFile == [kind |-> "none"]
Partial == [kind |-> "partial"]

\* the data save serialises from the object m = [sections, next_ids]
DocOf(m) == [kind |-> "doc", sections |-> m.sections, next_ids |-> m.next_ids]

\* _init_empty: every section empty, every next id 1
EmptyPlaybook == [sections |-> [s \in Sections |-> <<>>], next_ids |-> [s \in Sections |-> 1]]

\* the object of a process that is not running
Lost == [sections |-> <<>>, next_ids |-> <<>>]

MaxOf(S) == CHOOSE x \in S : \A y \in S : y <= x

\* load: the next id of a section the document has no next id for
ReconstructNextId(bs) == IF bs = <<>> THEN 1 ELSE MaxOf(Ids(bs)) + 1

\* load that always reconstructs the next ids from the bullets present
LoadDoc_Mut(d) ==
  [sections |-> d.sections,
   next_ids |-> [s \in DOMAIN d.sections |-> ReconstructNextId(d.sections[s])]]

\* load of a document: the persisted next ids, reconstructed only where missing
LoadDoc(d) ==
  [sections |-> d.sections,
   next_ids |-> [s \in (DOMAIN d.next_ids) \cup (DOMAIN d.sections) |->
                   IF s \in DOMAIN d.next_ids THEN d.next_ids[s]
                   ELSE ReconstructNextId(d.sections[s])]]

\* Bullet(...) as add_bullet creates it, with suffix n
NewBullet(n, c) ==
  [id |-> n, content |-> c, len |-> 0, helpful |-> 0, harmful |-> 0, stale |-> FALSE]

\* content given to add_bullet
AddContents == {{"a", "b"}}

\* defaults of deduplicate and prune_stale
DefaultSimilarity == Frac(85, 100)
DefaultMinQuality == Frac(3, 10)

\* documents found on disk at construction: one with a bullet of five harmful
\* references, one with a bullet of another content left after the bullet of suffix 2
\* was removed
InitialDocs ==
  {[kind |-> "doc",
    sections |-> [s \in Sections |->
                    IF s = "general"
                    THEN <<[id |-> 1, content |-> {"a", "c"}, len |-> 0, helpful |-> 1,
                            harmful |-> 0, stale |-> FALSE]>>
                    ELSE <<>>],
    next_ids |-> [s \in Sections |-> IF s = "general" THEN 3 ELSE 1]],
   [kind |-> "doc",
    sections |-> [s \in Sections |->
                    IF s = "import_resolution"
                    THEN <<[id |-> 1, content |-> {"a", "b"}, len |-> 0, helpful |-> 0,
                            harmful |-> 5, stale |-> FALSE]>>
                    ELSE <<>>],
    next_ids |-> [s \in Sections |-> IF s = "import_resolution" THEN 2 ELSE 1]]}

\* no identifier is being formed
NoPending == [sec |-> "general", n |-> 0]

\* pb.mem the object, pb.fs the files, pb.pc where the process is (idle, writing the
\* temporary file, written and about to rename, down), pb.op the operation that saves,
\* pb.pending the identifier add_bullet is about to return, pb.issued the suffixes
\* add_bullet has returned per section, pb.at where the last crash hit, pb.reloaded
\* whether the object was loaded since add_bullet last returned
PlaybookInit ==
  /\ AtRest
  /\ \/ pb = [mem |-> EmptyPlaybook,
              fs |-> [f \in {Path, TmpPath} |-> IF f = Path THEN DocOf(EmptyPlaybook) ELSE NoFile],
              pc |-> "idle", op |-> "none", pending |-> NoPending,
              issued |-> [s \in Sections |-> {}], at |-> "none",
              reloaded |-> FALSE]
     \/ \E d \in InitialDocs :
          pb = [mem |-> LoadDoc(d),
                fs |-> [f \in {Path, TmpPath} |-> IF f = Path THEN d ELSE NoFile],
                pc |-> "idle", op |-> "none", pending |-> NoPending,
                issued |-> [s \in Sections |-> 1..(d.next_ids[s] - 1)], at |-> "none",
                reloaded |-> FALSE]

\* save up to the opening of the temporary file, in the object state m
StartSave(m, op) ==
  [pb EXCEPT !.mem = m, !.pc = "writing", !.op = op,
             !.fs = [pb.fs EXCEPT ![TmpPath] = Partial]]

\* add_bullet up to the opening of the temporary file
AddBullet ==
  /\ pb.pc = "idle"
  /\ \E s \in Sections, c \in AddContents :
       LET n == pb.mem.next_ids[s]
           m == [sections |-> [pb.mem.sections EXCEPT ![s] = Append(@, NewBullet(n, c))],
                 next_ids |-> [pb.mem.next_ids EXCEPT ![s] = n + 1]]
       IN /\ n <= MaxSuffix
          /\ pb' = [StartSave(m, "add") EXCEPT !.pending = [sec |-> s, n |-> n]]
  /\ UNCHANGED restVars

\* remove_bullet of a bullet that is there; it does not save
RemoveBullet ==
  /\ pb.pc = "idle"
  /\ \E s \in Sections :
       \E k \in 1..Len(pb.mem.sections[s]) :
         pb' = [pb EXCEPT !.mem.sections[s] = KeepFrom(pb.mem.sections[s], {k}, 1)]
  /\ UNCHANGED restVars

\* prune_stale with its defaults; it saves when it pruned
PruneStale ==
  /\ pb.pc = "idle"
  /\ LET new == [s \in Sections |-> PruneSection(pb.mem.sections[s], DefaultMinQuality).bullets]
         m == [pb.mem EXCEPT !.sections = new]
     IN IF \E s \in Sections : Len(new[s]) < Len(pb.mem.sections[s])
        THEN pb' = StartSave(m, "prune")
        ELSE pb' = pb
  /\ UNCHANGED restVars

\* deduplicate with its default; it saves when it removed
Deduplicate ==
  /\ pb.pc = "idle"
  /\ LET new == [s \in Sections |-> DedupSection(pb.mem.sections[s], DefaultSimilarity).bullets]
         m == [pb.mem EXCEPT !.sections = new]
     IN IF \E s \in Sections : Len(new[s]) < Len(pb.mem.sections[s])
        THEN pb' = StartSave(m, "dedup")
        ELSE pb' = pb
  /\ UNCHANGED restVars

\* save called by the daemon
Save ==
  /\ pb.pc = "idle"
  /\ pb' = StartSave(pb.mem, "save")
  /\ UNCHANGED restVars

\* write_text completes: the temporary file holds the whole document
WriteDone ==
  /\ pb.pc = "writing"
  /\ pb' = [pb EXCEPT !.pc = "written", !.fs = [pb.fs EXCEPT ![TmpPath] = DocOf(pb.mem)]]
  /\ UNCHANGED restVars

\* rename of the temporary file onto self.path; the saving operation returns
Rename ==
  /\ pb.pc = "written"
  /\ pb' = [pb EXCEPT
              !.pc = "idle",
              !.fs = [f \in {Path, TmpPath} |->
                        IF f = Path THEN pb.fs[TmpPath] ELSE NoFile],
              !.issued = IF pb.op = "add"
                         THEN [pb.issued EXCEPT ![pb.pending.sec] = @ \cup {pb.pending.n}]
                         ELSE pb.issued,
              !.op = "none",
              !.pending = NoPending,
              !.reloaded = IF pb.op = "add" THEN FALSE ELSE pb.reloaded]
  /\ UNCHANGED restVars

\* the process dies, anywhere
Crash ==
  /\ pb.pc \in {"idle", "writing", "written"}
  /\ pb' = [pb EXCEPT !.pc = "down", !.mem = Lost, !.at = pb.pc, !.op = "none",
                       !.pending = NoPending]
  /\ UNCHANGED restVars

\* Playbook(path) of a new process, or load() of the running one: load when the file
\* is a document, _init_empty (which saves) when it is missing or does not parse
Reload ==
  /\ pb.pc \in {"down", "idle"}
  /\ IF pb.fs[Path].kind = "doc"
     THEN pb' = [pb EXCEPT !.mem = LoadDoc(pb.fs[Path]), !.pc = "idle", !.at = "none",
                           !.reloaded = TRUE]
     ELSE pb' = [StartSave(EmptyPlaybook, "init") EXCEPT !.at = "none", !.reloaded = TRUE]
  /\ UNCHANGED restVars

PlaybookNext ==
  \/ AddBullet
  \/ RemoveBullet
  \/ PruneStale
  \/ Deduplicate
  \/ Save
  \/ WriteDone
  \/ Rename
  \/ Crash
  \/ Reload

PlaybookSpec == PlaybookInit /\ [][PlaybookNext]_vars

\* add_bullet returns the identifier it formed
AddReturns == pb.pc = "written" /\ pb.op = "add" /\ pb'.pc = "idle"

\* C14: the suffix add_bullet returns in a section is larger than every suffix it
\* returned in that section before, whatever was added, removed, pruned,
\* deduplicated, saved and reloaded in between.
C14_SuffixesIncrease ==
  [][AddReturns => \A n \in pb.issued[pb.pending.sec] : n < pb.pending.n]_vars

\* add_bullet is about to return a suffix, the first since a reload, in a section
\* that no longer holds the bullet of a smaller suffix issued earlier
C14_Witness ==
  /\ pb.pc = "written"
  /\ pb.op = "add"
  /\ pb.reloaded
  /\ \E n \in pb.issued[pb.pending.sec] :
       n < pb.pending.n /\ n \notin Ids(pb.mem.sections[pb.pending.sec])

\* C17: self.path always holds a whole document; a step either leaves it as it was or,
\* being the rename, puts the whole new document there; a crash, also one between the
\* write of the temporary file and the rename, leaves it as it was.
C17_AtomicSave ==
  [][/\ pb'.fs[Path].kind = "doc"
     /\ \/ pb'.fs[Path] = pb.fs[Path]
        \/ pb.pc = "written" /\ pb'.fs[Path] = DocOf(pb.mem)
     /\ pb'.pc = "down" => pb'.fs[Path] = pb.fs[Path]]_vars

\* the process is down after a crash between the write of the temporary file and the
\* rename, and self.path holds the document from before the save, not the new one
C17_Witness ==
  /\ pb.pc = "down"
  /\ pb.at = "written"
  /\ pb.fs[TmpPath].kind = "doc"
  /\ pb.fs[Path].kind = "doc"
  /\ pb.fs[Path] # pb.fs[TmpPath]

(* ---------------------------------------- get_top_bullets, export_for_agent *)

\* Bullets the playbook holds at most when it is queried.
MaxCandidates == 2

\* len of the header line "## Coding Playbook (learned patterns — follow these)\n"
HeaderLen == 53
\* characters a token is counted as
CharsPerToken == 4
\* len of an identifier: two letters, a dash, three digits
IdLen == 6
\* the characters of a bullet line around identifier and content: "- [", "] ", "\n"
LineExtra == 6

\* the natural logarithm of 1..10 in millionths, from those of 2, 3, 5 and 7
LnMicro ==
  <<0, 693147, 1098612, 693147 + 693147, 1609438, 693147 + 1098612, 1945910,
    693147 + 693147 + 693147, 1098612 + 1098612, 693147 + 1609438>>

\* math.log1p
Log1p(x) == LnMicro[x + 1]

\* the sort key of get_top_bullets and export_for_agent:
\* quality_ratio * math.log1p(total_references + 1)
Score(b) ==
  [num |-> QualityRatio(b).num * Log1p(TotalReferences(b) + 1), den |-> QualityRatio(b).den]

\* quality_ratio * log(1 + total_references)
StatedScore(b) ==
  [num |-> QualityRatio(b).num * Log1p(TotalReferences(b)), den |-> QualityRatio(b).den]

\* list.sort(key, reverse=True) of a list of [key, b]: descending, equal keys in
\* their former order
RECURSIVE InsertDesc(_, _)
InsertDesc(q, x) ==
  IF q = <<>> THEN <<x>>
  ELSE IF FracLess(Head(q).key, x.key) THEN <<x>> \o q
  ELSE <<Head(q)>> \o InsertDesc(Tail(q), x)

RECURSIVE SortDesc(_)
SortDesc(q) ==
  IF q = <<>> THEN <<>>
  ELSE InsertDesc(SortDesc(SubSeq(q, 1, Len(q) - 1)), q[Len(q)])

\* the bullets of q in descending order of the sort key
ByScore(q) ==
  LET sorted == SortDesc([i \in 1..Len(q) |-> [key |-> Score(q[i]), b |-> q[i]]])
  IN [i \in 1..Len(q) |-> sorted[i].b]

\* the keys of self.sections, in the order _init_empty puts them there
SectionOrder == <<"import_resolution", "general">>

\* role_sections.get(role, list(self.sections.keys()))
RoleSections(role) ==
  IF role = "planner" THEN <<"architecture", "build_ordering", "general">>
  ELSE IF role = "builder"
    THEN <<"import_resolution", "flask_patterns", "dataclass_patterns", "sqlite_patterns",
           "stdlib_usage", "error_recovery", "general">>
  ELSE IF role = "test_gen" THEN <<"test_generation", "import_resolution", "general">>
  ELSE IF role \in {"initializer", "explorer"} THEN <<"architecture", "general">>
  ELSE SectionOrder

\* the bullets of the named sections that exist, section after section
RECURSIVE Collect(_, _)
Collect(names, secs) ==
  IF names = <<>> THEN <<>>
  ELSE (IF Head(names) \in DOMAIN secs THEN secs[Head(names)] ELSE <<>>)
       \o Collect(Tail(names), secs)

\* len of the line "- [id] content\n" of a bullet
LineLen(b) == LineExtra + IdLen + b.len

\* a budget of five characters a token
CharBudget_Mut(max_tokens) == max_tokens * 5

CharBudget(max_tokens) == max_tokens * CharsPerToken

\* the loop of export_for_agent from candidate i on, char_count being count
RECURSIVE EmitFrom(_, _, _, _)
EmitFrom(cands, i, count, budget) ==
  IF i > Len(cands) THEN [n |-> i - 1, chars |-> count]
  ELSE IF count + LineLen(cands[i]) > budget THEN [n |-> i - 1, chars |-> count]
  ELSE EmitFrom(cands, i + 1, count + LineLen(cands[i]), budget)

\* export_for_agent: the candidates in the order tried, the bullets whose lines are
\* in the text, and len of the text
ExportForAgent(secs, role, max_tokens) ==
  LET cands == ByScore(Collect(RoleSections(role), secs))
      e == EmitFrom(cands, 1, HeaderLen, CharBudget(max_tokens))
  IN [cands |-> cands, out |-> SubSeq(cands, 1, e.n), chars |-> e.chars]

\* get_top_bullets(n, section_filter); "" stands for no filter
GetTopBullets(secs, n, section_filter) ==
  LET names == SelectSeq(SectionOrder,
                         LAMBDA s : section_filter = "" \/ s = section_filter)
      cands == ByScore(Collect(names, secs))
  IN [cands |-> cands, out |-> Take(cands, n), chars |-> 0]

\* (helpful_count, harmful_count) of the bullets queried
ScorePairs == {<<0, 0>>, <<1, 0>>, <<1, 1>>, <<2, 0>>, <<2, 1>>, <<1, 6>>}
\* len of their contents
ContentLens == {1, 20}
\* role and max_tokens given to export_for_agent: the header alone is longer than the
\* first budget; the second holds one short line, the third a long and a short one
ExportRoles == {"planner", "general"}
TokenBudgets == {10, 17, 25}
\* n and section_filter given to get_top_bullets
TopSizes == {1, 30}
TopFilters == {"", "general"}

\* the playbooks queried: bullet i of the list is in section f[i][1]
QueryInputs(maxLen) ==
  UNION {{[i \in 1..n |-> [id |-> i, section |-> f[i][1], content |-> {"a"},
                          len |-> f[i][3], helpful |-> f[i][2][1],
                          harmful |-> f[i][2][2], stale |-> FALSE]] :
            f \in [1..n -> Sections \X ScorePairs \X ContentLens]} : n \in 0..maxLen}

SectionsOf(q) == [s \in Sections |-> SelectSeq(q, LAMBDA b : b.section = s)]

RatiosOf(q) == [i \in 1..Len(q) |-> QualityRatio(q[i])]

QueryInit ==
  /\ AtRest
  /\ \E q \in QueryInputs(MaxCandidates), r \in ExportRoles, mt \in TokenBudgets :
       pb = [sections |-> SectionsOf(q), role |-> r, max_tokens |-> mt, op |-> "none",
             cands |-> <<>>, out |-> <<>>, chars |-> 0, ratios |-> <<>>]

\* a call of export_for_agent
Export ==
  /\ pb.op = "none"
  /\ LET r == ExportForAgent(pb.sections, pb.role, pb.max_tokens)
     IN pb' = [pb EXCEPT !.op = "export", !.cands = r.cands, !.out = r.out,
                         !.chars = r.chars, !.ratios = RatiosOf(r.cands)]
  /\ UNCHANGED restVars

\* a call of get_top_bullets
TopBullets ==
  /\ pb.op = "none"
  /\ \E n \in TopSizes, sf \in TopFilters :
       LET r == GetTopBullets(pb.sections, n, sf)
       IN pb' = [pb EXCEPT !.op = "top", !.cands = r.cands, !.out = r.out,
                           !.chars = r.chars, !.ratios = RatiosOf(r.cands)]
  /\ UNCHANGED restVars

QueryNext == Export \/ TopBullets

QuerySpec == QueryInit /\ [][QueryNext]_vars

\* C15 as stated: every quality_ratio computed is in [0,1], and it is 1/2 exactly for
\* the bullets with helpful_count + harmful_count = 0.
C15_HalfIffUnreferenced ==
  \A i \in 1..Len(pb.ratios) :
    /\ FracLeq(Frac(0, 1), pb.ratios[i])
    /\ FracLeq(pb.ratios[i], Frac(1, 1))
    /\ FracEq(pb.ratios[i], Frac(1, 2)) <=> (pb.cands[i].helpful + pb.cands[i].harmful = 0)

\* C15: every quality_ratio computed is in [0,1], and it is 1/2 exactly for the bullets
\* that have no reference or as many helpful as harmful ones.
C15_RatioRange ==
  \A i \in 1..Len(pb.ratios) :
    /\ FracLeq(Frac(0, 1), pb.ratios[i])
    /\ FracLeq(pb.ratios[i], Frac(1, 1))
    /\ FracEq(pb.ratios[i], Frac(1, 2)) <=>
         \/ pb.cands[i].helpful + pb.cands[i].harmful = 0
         \/ pb.cands[i].helpful = pb.cands[i].harmful

\* the ratios of a never-referenced bullet and of one with one helpful and one harmful
\* reference were computed
C15_Witness ==
  /\ pb.op # "none"
  /\ \E i, j \in 1..Len(pb.ratios) :
       /\ pb.cands[i].helpful = 0 /\ pb.cands[i].harmful = 0
       /\ pb.cands[j].helpful = 1 /\ pb.cands[j].harmful = 1

RECURSIVE SumLines(_)
SumLines(q) == IF q = <<>> THEN 0 ELSE LineLen(Head(q)) + SumLines(Tail(q))

ByStatedScore(q) ==
  LET sorted == SortDesc([i \in 1..Len(q) |-> [key |-> StatedScore(q[i]), b |-> q[i]]])
  IN [i \in 1..Len(q) |-> sorted[i].b]

\* out is the longest beginning of want whose lines fit after the header
FittingPrefix(out, want, max_tokens) ==
  /\ Len(out) <= Len(want)
  /\ out = SubSeq(want, 1, Len(out))
  /\ out # <<>> => 53 + SumLines(out) <= 4 * max_tokens
  /\ Len(out) < Len(want) =>
       53 + SumLines(out) + LineLen(want[Len(out) + 1]) > 4 * max_tokens

\* the bullet lines are a beginning of the candidates in the order of the sort key the
\* code uses, ended by the first line that does not fit
C19_PrefixBySortKey ==
  pb.op = "export" =>
    FittingPrefix(pb.out, ByScore(Collect(RoleSections(pb.role), pb.sections)),
                  pb.max_tokens)

\* C19: the bullet lines export_for_agent emits are a beginning of the candidates of
\* the role's sections in descending order of quality_ratio * log(1 + total_references),
\* ended by the first candidate whose line does not fit the budget.
C19_PrefixByScore ==
  pb.op = "export" =>
    FittingPrefix(pb.out, ByStatedScore(Collect(RoleSections(pb.role), pb.sections)),
                  pb.max_tokens)

\* of two candidates with the same non-zero quality_ratio the one with more
\* references comes first
C20_MoreReferencesFirst ==
  pb.op # "none" =>
    \A i, j \in 1..Len(pb.cands) :
      (/\ FracEq(QualityRatio(pb.cands[i]), QualityRatio(pb.cands[j]))
       /\ QualityRatio(pb.cands[i]).num > 0
       /\ TotalReferences(pb.cands[i]) > TotalReferences(pb.cands[j])) => i < j

\* C20: in the order get_top_bullets and export_for_agent put the candidates, none
\* comes after a candidate whose quality_ratio * log(1 + total_references) is smaller.
C20_RankedByScore ==
  pb.op # "none" =>
    \A i, j \in 1..Len(pb.cands) :
      i < j => ~FracLess(StatedScore(pb.cands[i]), StatedScore(pb.cands[j]))

(* ------------------------------------------------------------ parse_session *)

\* Criteria dod.criteria holds at most.
MaxCriteria == 5

\* SessionTrace.test_pass_rate
TestPassRate(trace) ==
  IF trace.dod_total = 0 THEN Frac(0, 1) ELSE Frac(trace.dod_passed, trace.dod_total)

\* the state.json files parsed: the markers of the model and every list of up to
\* MaxCriteria criteria, in a session that is completed or not
ParseInputs ==
  Markers \cup
  UNION {{[json |-> "object", completed_at |-> c, dod_object |-> TRUE, criteria |-> cs] :
            cs \in [1..n -> BOOLEAN], c \in {"missing", "ts"}} : n \in 0..MaxCriteria}

ParseInit ==
  /\ AtRest
  /\ \E m \in ParseInputs :
       pb = [m |-> m, op |-> "none", trace |-> ParseSession(MarkerNonObject),
             rate |-> Frac(0, 1)]

\* a call of parse_session and, on a trace, of test_pass_rate
Parse ==
  /\ pb.op = "none"
  /\ LET tr == ParseSession(pb.m)
     IN pb' = [pb EXCEPT !.op = "parsed", !.trace = tr,
                         !.rate = IF tr.kind = "trace" THEN TestPassRate(tr) ELSE Frac(0, 1)]
  /\ UNCHANGED restVars

ParseNext == Parse

ParseSpec == ParseInit /\ [][ParseNext]_vars

\* C16: a parsed session has success exactly when dod.criteria is not empty and every
\* criterion passed; dod_total is the number of criteria and dod_passed the number of
\* those that passed; the pass rate is dod_passed / dod_total, and 0 without criteria.
C16_SuccessAndPassRate ==
  (pb.op = "parsed" /\ pb.trace.kind = "trace") =>
    LET cs == pb.m.criteria
        passed == {k \in 1..Len(cs) : cs[k]}
    IN /\ pb.trace.success <=> (Len(cs) > 0 /\ \A k \in 1..Len(cs) : cs[k])
       /\ pb.trace.dod_total = Len(cs)
       /\ pb.trace.dod_passed = Cardinality(passed)
       /\ IF Len(cs) = 0 THEN pb.rate.num = 0
          ELSE pb.rate.num * Len(cs) = Cardinality(passed) * pb.rate.den
       /\ cs = <<TRUE, TRUE>> => (pb.trace.success /\ FracEq(pb.rate, Frac(1, 1)))
       /\ cs = <<>> => (~pb.trace.success /\ FracEq(pb.rate, Frac(0, 1)))

\* a session was parsed whose second criterion of three failed
C16_Witness ==
  /\ pb.op = "parsed"
  /\ pb.trace.kind = "trace"
  /\ pb.m.criteria = <<TRUE, FALSE, TRUE>>
  /\ ~pb.trace.success
  /\ pb.trace.dod_passed = 2

(* ------------------------------------------------- the scanner's filters *)

\* a state.json that exists, parses to an object and carries a non-empty completed_at
Completed(m) == m.json = "object" /\ Truthy(m.completed_at)

\* C21: Reanalyze is pending exactly when no reanalysis ran within the last 24 hours
\* and some completed session exists; without a completed session it is not pending.
C21_ReanalyzePendingIff ==
  HasSessionsToReanalyze(marker, reanalysis) <=>
    /\ ~(reanalysis.exists /\ reanalysis.age < 24)
    /\ \E s \in Sessions : Completed(marker[s])

\* C23: find_all_sessions returns exactly the session directories whose state.json
\* exists, parses and carries a non-empty completion timestamp.
C23_FindAllIsCompleted ==
  Range(FindAllSessions(marker)) = {s \in Sessions : Completed(marker[s])}

\* C24: whatever the state.json files hold, find_new_sessions and parse_session return
\* normally (find_all_sessions reads no state.json).
C24_ScannerNeverRaises ==
  /\ ~FindNewSessions(marker, processed).raised
  /\ \A s \in Sessions : ParseSession(marker[s]).kind # "raise"

(* ------------------------------------------- one run of _reanalyze_sessions *)

\* Session directories the sessions directory holds at most during a Reanalyze run.
MaxReSessions == 6

\* a session directory without state.json
MarkerAbsent == [json |-> "absent", completed_at |-> "missing", dod_object |-> TRUE, criteria |-> <<>>]

\* the sessions directories a run finds: successful, failed and unreadable sessions
ReanalyzeInputs ==
  UNION {[1..n -> {MarkerDonePass, MarkerDoneFail, MarkerAbsent, MarkerNonObject}] :
           n \in 0..MaxReSessions}

\* pb.dir the session directories, pb.pc where the run stands, pb.cur the session the
\* Generator works on, pb.todo the sessions still to visit, pb.given the sessions
\* passed to the Generator so far
ReanalyzeInit ==
  /\ AtRest
  /\ \E d \in ReanalyzeInputs :
       pb = [dir |-> d, pc |-> "idle", cur |-> 0, todo |-> <<>>, given |-> <<>>]

\* the run from the session list q on, up to its next Generator call or to its end
ReanalyzeStep(q) ==
  LET n == ReanalyzeNext(q, pb.dir)
  IN IF n.kind = "raise" THEN [pb EXCEPT !.pc = "raised", !.cur = 0, !.todo = <<>>]
     ELSE IF n.kind = "done" THEN [pb EXCEPT !.pc = "done", !.cur = 0, !.todo = <<>>]
     ELSE [pb EXCEPT !.pc = "re_gen", !.cur = n.s, !.todo = n.rest,
                     !.given = Append(pb.given, n.s)]

\* _reanalyze_sessions starts: find_all_sessions()[:5]
ReanalyzeBegin ==
  /\ pb.pc = "idle"
  /\ pb' = ReanalyzeStep(Take(FindAllSessions(pb.dir), ReanalyzeBatch))
  /\ UNCHANGED restVars

\* the Generator, and the Reflector where it is called, have answered
ReanalyzeAnswered ==
  /\ pb.pc = "re_gen"
  /\ \E o \in GatewayOutcomes :
       IF AnalysisStep(GenerateJson(o)) = "raise"
       THEN pb' = [pb EXCEPT !.pc = "raised", !.cur = 0, !.todo = <<>>]
       ELSE pb' = ReanalyzeStep(pb.todo)
  /\ UNCHANGED restVars

ReanalyzeRunNext == ReanalyzeBegin \/ ReanalyzeAnswered

ReanalyzeSpec == ReanalyzeInit /\ [][ReanalyzeRunNext]_vars

\* C22: a Reanalyze run passes at most 5 sessions to the Generator, none of them
\* successful, and leaves the processed and the extracted set as they are.
C22_ReanalyzeBatch ==
  [][/\ Len(pb'.given) <= 5
     /\ \A k \in 1..Len(pb'.given) :
          LET cs == pb.dir[pb'.given[k]].criteria
          IN cs = <<>> \/ \E c \in 1..Len(cs) : ~cs[c]
     /\ processed' = processed
     /\ processedFile' = processedFile
     /\ extractedFile' = extractedFile]_vars

\* a run is over in a directory of more than five sessions whose first five are failed
\* ones, all passed to the Generator, and whose sixth is a failed one too
C22_Witness ==
  /\ pb.pc = "done"
  /\ Len(pb.given) = 5
  /\ Len(FindAllSessions(pb.dir)) > 5
  /\ pb.dir[6] = MarkerDoneFail

(* ------------------------------------------ parse_session: the trace log *)

\* Lines the trace log holds at most.
MaxTraceLines == 3

\* a line of the log: a record of one of the four types or of another type, a blank
\* line, a line that is no JSON, a line that is JSON but no object
TraceTypes == {"build_failure", "test_failure", "rca_failure", "sampling_result"}
LineKinds == TraceTypes \cup {"other", "blank", "corrupt", "nonobject"}

NoTraces == [t \in TraceTypes |-> <<>>]

\* the loop over the lines from line k on; lists holds, per type, the lines appended.
\* json.loads or entry.get raising ends the loop: the try statement is around it
RECURSIVE TraceLoop(_, _, _)
TraceLoop(lines, k, lists) ==
  IF k > Len(lines) THEN lists
  ELSE IF lines[k] = "blank" THEN TraceLoop(lines, k + 1, lists)
  ELSE IF lines[k] \in {"corrupt", "nonobject"} THEN lists
  ELSE IF lines[k] \in TraceTypes
    THEN TraceLoop(lines, k + 1, [lists EXCEPT ![lines[k]] = Append(@, k)])
  ELSE TraceLoop(lines, k + 1, lists)

\* the part of parse_session that reads the trace log: the SessionTrace is returned
\* whatever the log holds
ParseTraces(lines) == [returned |-> TRUE, lists |-> TraceLoop(lines, 1, NoTraces)]

TraceInputs == UNION {[1..n -> LineKinds] : n \in 0..MaxTraceLines}

TraceInit ==
  /\ AtRest
  /\ \E ls \in TraceInputs :
       pb = [lines |-> ls, op |-> "none", returned |-> FALSE, lists |-> NoTraces]

\* parse_session on a session with this trace log
ParseTraceLog ==
  /\ pb.op = "none"
  /\ LET r == ParseTraces(pb.lines)
     IN pb' = [pb EXCEPT !.op = "parsed", !.returned = r.returned, !.lists = r.lists]
  /\ UNCHANGED restVars

TraceNext == ParseTraceLog

TraceSpec == TraceInit /\ [][TraceNext]_vars

\* a line that is no JSON, or no JSON object
Unreadable(l) == l \in {"corrupt", "nonobject"}

\* parse_session returns a SessionTrace, and the records before the first unreadable
\* line are in their lists
C25_RecordsBeforeKept ==
  pb.op = "parsed" =>
    /\ pb.returned
    /\ \A k \in 1..Len(pb.lines) :
         (pb.lines[k] \in TraceTypes /\ \A j \in 1..k : ~Unreadable(pb.lines[j]))
           => k \in Range(pb.lists[pb.lines[k]])

\* C25: parse_session returns a SessionTrace, and every record of the trace log of
\* one of the four types, before or after a corrupt line, is in the list of its type.
C25_CorruptLineSkipped ==
  pb.op = "parsed" =>
    /\ pb.returned
    /\ \A k \in 1..Len(pb.lines) :
         pb.lines[k] \in TraceTypes => k \in Range(pb.lists[pb.lines[k]])

(* ------------------------------------------- Playbook(path) on what it finds *)

\* self.metadata as __init__ sets it
ZeroMetadata ==
  [total_sessions_analyzed |-> 0, total_deltas_applied |-> 0, total_bullets_pruned |-> 0]

\* a file that is JSON but no object, and one whose sections hold an entry that is no
\* bullet object
NonObject == [kind |-> "nonobject"]
BadBullet == [kind |-> "badbullet"]

\* __init__: _init_empty when the file is missing; load when it is there, which calls
\* _init_empty when json.loads raises and lets every other exception through
Construct(f) ==
  IF f.kind \in {"none", "partial"}
  THEN [raised |-> FALSE, sections |-> EmptyPlaybook.sections,
        next_ids |-> EmptyPlaybook.next_ids, metadata |-> ZeroMetadata]
  ELSE IF f.kind \in {"nonobject", "badbullet"}
  THEN [raised |-> TRUE, sections |-> <<>>, next_ids |-> <<>>, metadata |-> ZeroMetadata]
  ELSE [raised |-> FALSE, sections |-> LoadDoc(f).sections,
        next_ids |-> LoadDoc(f).next_ids, metadata |-> f.metadata]

\* the bullet lists of a section of the documents found
FoundSections ==
  {<<>>} \cup {<<[id |-> 1, content |-> c, len |-> 0, helpful |-> h, harmful |-> 0,
                  stale |-> FALSE]>> : c \in AddContents \cup {{"a", "c"}}, h \in {0, 1}}

\* the files found at self.path: none, an unparseable one, parseable ones of the wrong
\* shape, and documents, with and without next_ids
FoundFiles ==
  {NoFile, Partial, NonObject, BadBullet} \cup
  {[kind |-> "doc", sections |-> ss, next_ids |-> [s \in ks |-> Len(ss[s]) + 1],
    metadata |-> [ZeroMetadata EXCEPT !.total_deltas_applied = n]] :
      ss \in [Sections -> FoundSections], ks \in {{}, Sections}, n \in {0, 1}}

ConstructInit ==
  /\ AtRest
  /\ \E f \in FoundFiles :
       pb = [file |-> f, op |-> "none", obj |-> Construct(NoFile)]

\* Playbook(path)
ConstructPlaybook ==
  /\ pb.op = "none"
  /\ pb' = [pb EXCEPT !.op = "constructed", !.obj = Construct(pb.file)]
  /\ UNCHANGED restVars

ConstructNext == ConstructPlaybook

ConstructSpec == ConstructInit /\ [][ConstructNext]_vars

\* the object _init_empty leaves: every section empty, every next id 1, metadata zero
IsEmptyDefault(o) ==
  /\ ~o.raised
  /\ \A s \in Sections : o.sections[s] = <<>> /\ o.next_ids[s] = 1
  /\ o.metadata = ZeroMetadata

\* a file that does not parse as JSON gives the empty default playbook
C26_UnparseableReinitialized ==
  (pb.op = "constructed" /\ pb.file.kind = "partial") => IsEmptyDefault(pb.obj)

\* C26: constructing the Playbook on a corrupt document does not fail and gives the
\* empty default playbook.
C26_CorruptReinitialized ==
  (pb.op = "constructed" /\ pb.file.kind \in {"partial", "nonobject", "badbullet"})
    => IsEmptyDefault(pb.obj)

(* ------------------------------------------- deduplicate at the threshold *)

\* Bullets of the section deduplicate is called on at the threshold.
MaxPairLen == 2

\* word sets: the first two share two of four words
JaccardContents == {{"a", "b", "c"}, {"a", "b", "d"}, {"a", "b"}, {}}

\* similarity_threshold: the similarity of the first two contents, and just above it
JaccardThresholds == {Frac(1, 2), Frac(51, 100)}

JaccardInputs ==
  UNION {{[i \in 1..n |-> [id |-> i, content |-> f[i][1], len |-> 0,
                          helpful |-> f[i][2], harmful |-> 0, stale |-> FALSE]] :
            f \in [1..n -> JaccardContents \X {0, 1}]} : n \in 0..MaxPairLen}

JaccardInit ==
  /\ AtRest
  /\ \E q \in JaccardInputs, t \in JaccardThresholds :
       pb = [runs |-> 0, thr |-> t, input |-> q, before |-> q, bullets |-> q,
             removed |-> 0]

JaccardSpec == JaccardInit /\ [][DedupNext]_vars

\* the section held one bullet of words {a,b,c} and one of words {a,b,d}
AbcAbd(q) ==
  /\ Len(q) = 2
  /\ {q[1].content, q[2].content} = {{"a", "b", "c"}, {"a", "b", "d"}}

\* C27: the similarity of two contents is the number of their common words over the
\* number of all their words, 2/4 for {a,b,c} and {a,b,d}; deduplicate merges the two
\* bullets at threshold 0.5 and leaves both at threshold 0.51.
C27_JaccardInclusive ==
  /\ \A i, j \in 1..Len(pb.input) :
       LET x == pb.input[i].content
           y == pb.input[j].content
           sim == TextSimilarity(x, y)
       IN IF x = {} \/ y = {} THEN sim.num = 0
          ELSE sim.num * Cardinality(x \cup y) = Cardinality(x \cap y) * sim.den
  /\ (pb.runs = 1 /\ AbcAbd(pb.before)) =>
       /\ FracEq(TextSimilarity(pb.before[1].content, pb.before[2].content), Frac(1, 2))
       /\ pb.thr = Frac(1, 2) => (Len(pb.bullets) = 1 /\ pb.removed = 1)
       /\ pb.thr = Frac(51, 100) => (pb.bullets = pb.before /\ pb.removed = 0)

\* deduplicate merged a bullet of words {a,b,c} and one of words {a,b,d} at 0.5
C27_Witness ==
  /\ pb.runs = 1
  /\ AbcAbd(pb.before)
  /\ pb.thr = Frac(1, 2)
  /\ pb.removed = 1

(* ------------------------------------------------------------ the Curator *)

\* Bullets the Reflector proposes at most for one session.
MaxProposals == 2

\* config.dedup_similarity_threshold
DedupThreshold == Frac(85, 100)

\* contents as sets of word numbers: twenty words; seventeen of them (similarity to the
\* twenty exactly 0.85); sixteen of them (0.8); a word of its own; no word
Words20 == 1..20
Words17 == 1..17
Words16 == 1..16
WordsOther == {21}
WordsNone == {}

\* the bullet of self.playbook.sections.get(section, []) the proposal is a duplicate
\* of: the index of the first with similarity above the threshold, 0 if there is none
RECURSIVE FirstDupe(_, _, _)
FirstDupe(bs, content, k) ==
  IF k > Len(bs) THEN 0
  ELSE IF FracLess(DedupThreshold, TextSimilarity(content, bs[k].content)) THEN k
  ELSE FirstDupe(bs, content, k + 1)

\* the section list of a playbook, empty for a section it does not have
SectionGet(m, s) == IF s \in DOMAIN m.sections THEN m.sections[s] ELSE <<>>

\* add_bullet on the object m; helpful is what the caller sets helpful_count to
AddTo(m, s, content, helpful) ==
  LET n == IF s \in DOMAIN m.next_ids THEN m.next_ids[s] ELSE 1
      b == [NewBullet(n, content) EXCEPT !.helpful = helpful]
  IN [sections |-> [x \in (DOMAIN m.sections) \cup {s} |->
                      IF x = s THEN Append(SectionGet(m, s), b) ELSE m.sections[x]],
      next_ids |-> [x \in (DOMAIN m.next_ids) \cup {s} |->
                      IF x = s THEN n + 1 ELSE m.next_ids[x]]]

\* the Curator loop of _reflect_on_session over the proposals ps from k on;
\* st = [mem, writes, added], writes counting the saves of the playbook document
RECURSIVE CurateReflect(_, _, _, _)
CurateReflect(st, ps, k, success) ==
  IF k > Len(ps) THEN st
  ELSE IF ps[k].content = {} THEN CurateReflect(st, ps, k + 1, success)
  ELSE LET s == ps[k].section
           d == FirstDupe(SectionGet(st.mem, s), ps[k].content, 1)
       IN IF d > 0
          THEN CurateReflect(
                 [st EXCEPT !.mem.sections[s][d].helpful = IF success THEN @ + 1 ELSE @,
                            !.mem.sections[s][d].stale = FALSE],
                 ps, k + 1, success)
          ELSE CurateReflect(
                 [mem |-> AddTo(st.mem, s, ps[k].content, IF success THEN 1 ELSE 0),
                  writes |-> st.writes + 1, added |-> st.added + 1],
                 ps, k + 1, success)

\* the Curator loop of _reanalyze_sessions for one session
RECURSIVE CurateReanalyze(_, _, _)
CurateReanalyze(st, ps, k) ==
  IF k > Len(ps) THEN st
  ELSE IF ps[k].content = {} THEN CurateReanalyze(st, ps, k + 1)
  ELSE LET s == ps[k].section
           d == FirstDupe(SectionGet(st.mem, s), ps[k].content, 1)
       IN IF d > 0 THEN CurateReanalyze(st, ps, k + 1)
          ELSE CurateReanalyze(
                 [mem |-> AddTo(st.mem, s, ps[k].content, 0),
                  writes |-> st.writes + 1, added |-> st.added + 1],
                 ps, k + 1)

\* the playbooks the Curator works on: section general empty or with one bullet of
\* twenty words, stale or not
CuratorPlaybooks ==
  {EmptyPlaybook} \cup
  {[sections |-> [s \in Sections |->
                    IF s = "general"
                    THEN <<[id |-> 1, content |-> Words20, len |-> 0, helpful |-> h,
                            harmful |-> 0, stale |-> o]>>
                    ELSE <<>>],
    next_ids |-> [s \in Sections |-> IF s = "general" THEN 2 ELSE 1]] :
      h \in {0, 1}, o \in BOOLEAN}

\* the proposals of the Reflector
Proposals ==
  UNION {[1..n -> [section : {"general", "import_resolution"},
                   content : {Words17, Words16, Words20, WordsOther, WordsNone}]] :
           n \in 0..MaxProposals}

CuratorInit ==
  /\ AtRest
  /\ \E m \in CuratorPlaybooks, ps \in Proposals, ok \in BOOLEAN :
       pb = [before |-> m, mem |-> m, proposals |-> ps, success |-> ok, op |-> "none",
             writes |-> 0, added |-> 0]

\* the Curator step of Reflect and the self.playbook.save() after it
ReflectCurator ==
  /\ pb.op = "none"
  /\ LET r == CurateReflect([mem |-> pb.mem, writes |-> 0, added |-> 0], pb.proposals, 1,
                            pb.success)
     IN pb' = [pb EXCEPT !.op = "reflect", !.mem = r.mem, !.writes = r.writes + 1,
                         !.added = r.added]
  /\ UNCHANGED restVars

\* the Curator step of Reanalyze for a failed session and the save after the loop
ReanalyzeCurator ==
  /\ pb.op = "none"
  /\ ~pb.success
  /\ LET r == CurateReanalyze([mem |-> pb.mem, writes |-> 0, added |-> 0], pb.proposals, 1)
     IN pb' = [pb EXCEPT !.op = "reanalyze", !.mem = r.mem, !.writes = r.writes + 1,
                         !.added = r.added]
  /\ UNCHANGED restVars

CuratorNext == ReflectCurator \/ ReanalyzeCurator

CuratorSpec == CuratorInit /\ [][CuratorNext]_vars

\* the bullets of section s the Curator created
NewIn(s) ==
  {k \in 1..Len(SectionGet(pb.mem, s)) :
     SectionGet(pb.mem, s)[k].id \notin Ids(SectionGet(pb.before, s))}

\* a proposal whose similarity to a bullet of its section is above the threshold
\* creates no bullet
C28_AboveThresholdNoBullet ==
  pb.op # "none" =>
    \A k \in 1..Len(pb.proposals) :
      LET p == pb.proposals[k]
          old == SectionGet(pb.before, p.section)
      IN (/\ p.content # {}
          /\ \E e \in 1..Len(old) :
               FracLess(Frac(85, 100), TextSimilarity(p.content, old[e].content)))
         => \A n \in NewIn(p.section) : SectionGet(pb.mem, p.section)[n].content # p.content

\* C28: a proposal whose similarity to a bullet of its section is at the threshold or
\* above it creates no bullet, in Reflect and in Reanalyze.
C28_AtThresholdNoBullet ==
  pb.op # "none" =>
    \A k \in 1..Len(pb.proposals) :
      LET p == pb.proposals[k]
          old == SectionGet(pb.before, p.section)
      IN (/\ p.content # {}
          /\ \E e \in 1..Len(old) :
               FracLeq(Frac(85, 100), TextSimilarity(p.content, old[e].content)))
         => \A n \in NewIn(p.section) : SectionGet(pb.mem, p.section)[n].content # p.content

\* the Curator of Reflect changes a bullet's helpful count only for a successful session
C29_HelpfulOnlyOnSuccess ==
  (pb.op = "reflect" /\ ~pb.success) =>
    \A s \in DOMAIN pb.before.sections :
      \A k \in 1..Len(pb.before.sections[s]) :
        pb.mem.sections[s][k].helpful = pb.before.sections[s][k].helpful

\* C29: the Curator of Reflect leaves every bullet that was there entirely unchanged
\* when the session was not successful; when it was, a matched bullet has a larger
\* helpful count and a fresh last_referenced.
C29_UnchangedOnFailure ==
  pb.op = "reflect" =>
    \A s \in DOMAIN pb.before.sections :
      \A k \in 1..Len(pb.before.sections[s]) :
        LET old == pb.before.sections[s][k]
            new == pb.mem.sections[s][k]
        IN IF ~pb.success THEN new = old
           ELSE (\E j \in 1..Len(pb.proposals) :
                   /\ pb.proposals[j].section = s
                   /\ pb.proposals[j].content # {}
                   /\ FirstDupe(pb.before.sections[s], pb.proposals[j].content, 1) = k)
                => (new.helpful > old.helpful /\ ~new.stale)

\* the document is saved once for each bullet added and once after the loop
C30_WritesAddedPlusOne ==
  pb.op # "none" => pb.writes = pb.added + 1

\* C30: the Reflect of one session writes the playbook document exactly once.
C30_WrittenOnce ==
  pb.op = "reflect" => pb.writes = 1

(* ------------------------------------------------- the order of Reflect *)

\* the completed sessions find_new_sessions has to return
NewCompleted == {s \in Sessions : Completed(marker[s]) /\ s \notin processed}

\* C31: Reflect always operates on the unprocessed completed session of the smallest
\* directory name, and a cycle marks no session but the one it reflected on; so every
\* completed session of a smaller name was reflected on before.
C31_ReflectsSmallestFirst ==
  [][/\ (pc = "top" /\ pc' = "gen") =>
          /\ cur' \in NewCompleted
          /\ \A t \in NewCompleted : cur' <= t
          /\ \A t \in Sessions : (Completed(marker[t]) /\ t < cur') => t \in marked
     /\ processed' # processed =>
          /\ pc \in {"gen", "ref"}
          /\ processed' = processed \cup {cur}]_vars

\* Reflect works on the second session after the first one was reflected on
C31_Witness ==
  /\ pc = "gen"
  /\ cur = 2
  /\ Completed(marker[1])
  /\ 1 \in processed

(* ------------------------------------------------ the connectivity check *)

\* Letters a model name has at most, and names /api/tags lists at most.
MaxNameLen == 2
MaxModels == 2

\* model names, as sequences of letters; <<>> is the name of an entry without "name"
ModelNames == UNION {[1..n -> {1, 2}] : n \in 0..MaxNameLen}

\* self.model.split(":")[0] of the configured model
ModelBases == ModelNames \ {<<>>}

\* what GET /api/tags does: no answer, a status other than 200, or a list of models
ProbeAnswers ==
  {[kind |-> k, names |-> <<>>] : k \in {"unreachable", "http_error"}}
  \cup {[kind |-> "ok", names |-> ns] : ns \in UNION {[1..n -> ModelNames] : n \in 0..MaxModels}}

\* `base in name` of two strings
Contains(name, base) ==
  \E i \in 0..(Len(name) - Len(base)) : SubSeq(name, i + 1, i + Len(base)) = base

\* the branch of is_available an answer takes
ProbeClass(base, a) ==
  IF a.kind # "ok" THEN a.kind
  ELSE IF \E i \in 1..Len(a.names) : Contains(a.names[i], base) THEN "model_listed"
  ELSE IF Len(a.names) > 0 THEN "other_model"
  ELSE "no_models"

StartupInit ==
  /\ AtRest
  /\ \E b \in ModelBases, a \in ProbeAnswers :
       pb = [model |-> b, answer |-> a, state |-> "STARTING", pc |-> "start"]

\* run() up to the loop: the connectivity check, then RUNNING
StartupProbe ==
  /\ pb.pc = "start"
  /\ IF IsAvailable(ProbeClass(pb.model, pb.answer))
     THEN pb' = [pb EXCEPT !.state = "RUNNING", !.pc = "top"]
     ELSE pb' = [pb EXCEPT !.pc = "failed"]
  /\ UNCHANGED restVars

StartupNext == StartupProbe

StartupSpec == StartupInit /\ [][StartupNext]_vars

\* the loop is entered only if the service answered with status 200 and listed a model
C32_RunningOnlyIfSomeModel ==
  pb.state = "RUNNING" => (pb.answer.kind = "ok" /\ Len(pb.answer.names) > 0)

\* C32: the daemon is RUNNING only if the service answered and listed the configured
\* model; when the service answers without listing it, the loop is not started.
C32_RunningOnlyWithModel ==
  /\ pb.state = "RUNNING" =>
       /\ pb.answer.kind = "ok"
       /\ \E i \in 1..Len(pb.answer.names) : Contains(pb.answer.names[i], pb.model)
  /\ (pb.pc # "start" /\ pb.answer.kind = "ok"
        /\ ~\E i \in 1..Len(pb.answer.names) : Contains(pb.answer.names[i], pb.model))
       => pb.pc = "failed"

(* ------------------------------------------------ the backlog drains *)

\* the steps of run(), the daemon left alone: no signal, no kill switch, no session changes
DaemonNext ==
  \/ Startup
  \/ ScanFault
  \/ StartReflect
  \/ Generator
  \/ Reflector
  \/ RunExtract
  \/ StartReanalyze
  \/ ReanalyzeGenerator
  \/ ReanalyzeReflector
  \/ RunEvaluate
  \/ Idle
  \/ WakeUp
  \/ BackoffDone

\* a cycle takes minutes, a tick of the clock hours: the clock ticks while the daemon sleeps
DrainTick == pc = "sleep" /\ Tick

DrainNext == DaemonNext \/ DrainTick

\* the session directories found at the start: completed and passed, completed and
\* failed, still running, and one whose state.json makes the scanner raise
DrainMarkers == {MarkerDonePass, MarkerDoneFail, MarkerOpenPass, MarkerNonObject}

DrainInit == Init /\ \A s \in Sessions : marker[s] \in DrainMarkers

\* the event loop keeps running: a coroutine that can go on does go on
DrainSpec == DrainInit /\ [][DrainNext]_vars /\ WF_vars(DaemonNext)

\* the connectivity check failed, or a cycle faulted
Halted == pc = "failed" \/ errors > 0

\* a class of lower priority that stops being pending has run
PendingEndsByRun ==
  /\ (HasUnextractedSessions(marker, extractedFile) = "true"
        /\ HasUnextractedSessions(marker', extractedFile') # "true")
       => (extractedFile' # extractedFile /\ state' = "EXTRACTING")
  /\ (HasSessionsToReanalyze(marker, reanalysis)
        /\ ~HasSessionsToReanalyze(marker', reanalysis'))
       => (reanalysis' = [exists |-> TRUE, age |-> 0] /\ state' = "REANALYZING")
  /\ (IsEvalTime(lastEval) /\ ~IsEvalTime(lastEval'))
       => (lastEval' = [exists |-> TRUE, age |-> 0] /\ state' = "EVALUATING")

C34_PairConserved ==
  Len(pb.input) <= 2 =>
    LET r == DedupSection(pb.input, pb.thr)
    IN /\ SumHelpful(r.bullets) = SumHelpful(pb.input)
       /\ SumHarmful(r.bullets) = SumHarmful(pb.input)

\* C34: for every section and threshold, the sum of the helpful counts and the sum of
\* the harmful counts of the section's bullets are the same after deduplicate as
\* before it, also when three or more bullets are similar to each other.
C34_EvidenceConserved ==
  LET r == DedupSection(pb.input, pb.thr)
  IN /\ SumHelpful(r.bullets) = SumHelpful(pb.input)
     /\ SumHarmful(r.bullets) = SumHarmful(pb.input)

\* a call never empties a section that held a bullet
C35_NeverEmptied ==
  (pb.runs > 0 /\ pb.before # <<>>) => pb.bullets # <<>>

\* C35: every bullet deduplicate removes is similar, at or above the threshold, to a
\* bullet that is left in its section after the call, and a non-empty section is
\* never emptied.
C35_RemovedResembleKept ==
  /\ pb.runs > 0 =>
       \A i \in 1..Len(pb.before) :
         pb.before[i].id \notin Ids(pb.bullets) =>
           \E k \in 1..Len(pb.bullets) : Similar(pb.before[i], pb.bullets[k], pb.thr)
  /\ C35_NeverEmptied

(* ------------------------------------- helpful counts of one Reflect *)

\* helpful_count of bullet k of section s before the Curator ran, 0 for a bullet it created
HelpfulBefore(s, k) ==
  IF k <= Len(SectionGet(pb.before, s)) THEN SectionGet(pb.before, s)[k].helpful ELSE 0

\* the Reflect of a session raises no helpful count by more than the number of its
\* proposals, and none at all when the session failed
C36_RaisedByProposals ==
  pb.op = "reflect" =>
    \A s \in DOMAIN pb.mem.sections :
      \A k \in 1..Len(pb.mem.sections[s]) :
        /\ pb.mem.sections[s][k].helpful <= HelpfulBefore(s, k) + Len(pb.proposals)
        /\ ~pb.success => pb.mem.sections[s][k].helpful = HelpfulBefore(s, k)

\* C36: the Reflect of one successful session raises the helpful_count of any bullet
\* by at most 1, however many proposals match it, and a bullet it created ends with
\* helpful_count exactly 1.
C36_HelpfulAtMostOne ==
  (pb.op = "reflect" /\ pb.success) =>
    \A s \in DOMAIN pb.mem.sections :
      \A k \in 1..Len(pb.mem.sections[s]) :
        IF k <= Len(SectionGet(pb.before, s))
        THEN pb.mem.sections[s][k].helpful <= HelpfulBefore(s, k) + 1
        ELSE pb.mem.sections[s][k].helpful = 1

(* ------------------------------------------------- bullet identifiers *)

\* Bullets add_bullet creates at most, and update_counts calls on one bullet at most.
MaxIdBullets == 3
MaxIdUpdates == 1

\* section names, letter by letter: the default sections of the model and names a
\* caller of add_bullet may come with
SectionLetters ==
  [import_resolution |-> <<"i", "m", "p", "o", "r", "t", "_",
                           "r", "e", "s", "o", "l", "u", "t", "i", "o", "n">>,
   general    |-> <<"g", "e", "n", "e", "r", "a", "l">>,
   generic    |-> <<"g", "e", "n", "e", "r", "i", "c">>,
   git_errors |-> <<"g", "i", "t", "_", "e", "r", "r", "o", "r", "s">>,
   testing    |-> <<"t", "e", "s", "t", "i", "n", "g">>]

\* DEFAULT_SECTIONS, in the order _init_empty creates them
DefaultOrder == <<"import_resolution", "general">>

\* str.upper() on the letters of the names
Upper(ch) ==
  CASE ch = "e" -> "E" [] ch = "g" -> "G" [] ch = "i" -> "I" [] ch = "r" -> "R"
    [] ch = "t" -> "T" [] OTHER -> ch

\* section.split("_"): cs the letters still to read, part the part being read
RECURSIVE SplitName(_, _)
SplitName(cs, part) ==
  IF cs = <<>> THEN <<part>>
  ELSE IF Head(cs) = "_" THEN <<part>> \o SplitName(Tail(cs), <<>>)
  ELSE SplitName(Tail(cs), Append(part, Head(cs)))

\* _section_prefix
SectionPrefix(section) ==
  LET cs == SectionLetters[section]
      parts == SplitName(cs, <<>>)
  IN IF Len(parts) >= 2
     THEN <<Upper(parts[1][1]), Upper(parts[2][1])>>
     ELSE [i \in 1..Min(2, Len(cs)) |-> Upper(cs[i])]

\* the bullets of a playbook in the order get_bullet and remove_bullet meet them:
\* section by section, in the order the sections were created
RECURSIVE AllBullets(_, _)
AllBullets(order, secs) ==
  IF order = <<>> THEN <<>>
  ELSE secs[Head(order)] \o AllBullets(Tail(order), secs)

\* get_bullet: the first bullet with the id; every id asked for here is there
GetBullet(m, id) ==
  LET all == AllBullets(m.order, m.sections)
  IN all[CHOOSE i \in 1..Len(all) :
           all[i].id = id /\ \A j \in 1..(i - 1) : all[j].id # id]

IdInit ==
  /\ AtRest
  /\ pb = [order |-> DefaultOrder,
           sections |-> [s \in Range(DefaultOrder) |-> <<>>],
           next_ids |-> [s \in Range(DefaultOrder) |-> 1],
           made |-> 0, op |-> "none", asked |-> 0, acted |-> 0]

\* add_bullet; uid numbers the bullets in the order they are created
IdAddBullet ==
  /\ pb.made < MaxIdBullets
  /\ \E s \in DOMAIN SectionLetters :
       LET fresh == s \notin DOMAIN pb.sections
           n == IF fresh THEN 1 ELSE pb.next_ids[s]
           b == [id |-> [prefix |-> SectionPrefix(s), n |-> n], uid |-> pb.made + 1,
                 section |-> s, helpful |-> 0]
           names == (DOMAIN pb.sections) \cup {s}
       IN pb' = [order |-> IF fresh THEN Append(pb.order, s) ELSE pb.order,
                 sections |-> [x \in names |->
                                 IF x = s
                                 THEN Append(IF fresh THEN <<>> ELSE pb.sections[s], b)
                                 ELSE pb.sections[x]],
                 next_ids |-> [x \in names |-> IF x = s THEN n + 1 ELSE pb.next_ids[x]],
                 made |-> pb.made + 1, op |-> "add", asked |-> pb.made + 1,
                 acted |-> pb.made + 1]
  /\ UNCHANGED restVars

\* update_counts(id, True) with the id add_bullet returned for a bullet (asked);
\* acted is the bullet get_bullet finds
IdUpdateCounts ==
  /\ LET all == AllBullets(pb.order, pb.sections)
     IN \E k \in 1..Len(all) :
          LET b == GetBullet(pb, all[k].id)
          IN /\ b.helpful < MaxIdUpdates
             /\ pb' = [pb EXCEPT
                         !.sections[b.section] =
                           [i \in 1..Len(@) |->
                              IF @[i].uid = b.uid THEN [@[i] EXCEPT !.helpful = @ + 1]
                              ELSE @[i]],
                         !.op = "update", !.asked = all[k].uid, !.acted = b.uid]
  /\ UNCHANGED restVars

\* remove_bullet(id) with the id add_bullet returned for a bullet (asked); acted is
\* the bullet it removes
IdRemoveBullet ==
  /\ LET all == AllBullets(pb.order, pb.sections)
     IN \E k \in 1..Len(all) :
          LET b == GetBullet(pb, all[k].id)
          IN pb' = [pb EXCEPT
                      !.sections[b.section] = SelectSeq(@, LAMBDA x : x.uid # b.uid),
                      !.op = "remove", !.asked = all[k].uid, !.acted = b.uid]
  /\ UNCHANGED restVars

IdNext == IdAddBullet \/ IdUpdateCounts \/ IdRemoveBullet

IdSpec == IdInit /\ [][IdNext]_vars

\* within one section no two bullets have the same identifier
C37_UniqueInSection ==
  \A s \in DOMAIN pb.sections :
    \A i, j \in 1..Len(pb.sections[s]) :
      i # j => pb.sections[s][i].id # pb.sections[s][j].id

\* C37: no two bullets of the playbook have the same identifier, whatever sections
\* add_bullet created, and an operation called with the identifier add_bullet
\* returned acts on the bullet that add_bullet created.
C37_UniqueInPlaybook ==
  LET all == AllBullets(pb.order, pb.sections)
  IN /\ \A i, j \in 1..Len(all) : i # j => all[i].id # all[j].id
     /\ pb.acted = pb.asked

(* ------------------------------------- what prune_stale removes, exactly *)

\* the section bs with the bullets' last_referenced on the side of the cutoff that f says
WithStale(bs, f) == [i \in 1..Len(bs) |-> [bs[i] EXCEPT !.stale = f[i]]]

\* the identifiers of the bullets of bs, in order
BulletIds(bs) == [i \in 1..Len(bs) |-> bs[i].id]

GrowMarkers == DrainMarkers \cup {MarkerEmptyTs}

GrowInit == Init /\ \A s \in Sessions : marker[s] \in GrowMarkers

\* the daemon's cycles, the clock while it sleeps, and the orchestrator carrying
\* sessions on
GrowNext == DaemonNext \/ DrainTick \/ CompleteSession

\* the event loop keeps running; the orchestrator finishes a session or does not
GrowSpec == GrowInit /\ [][GrowNext]_vars /\ WF_vars(DaemonNext)

\* parse_session reads the session as completed and successful
CompletedSuccessful(s) ==
  LET t == ParseSession(marker[s])
  IN t.kind = "trace" /\ t.completed /\ t.success

\* C39: unless a cycle faults, every session that is or becomes completed and
\* successful eventually has its training examples in the queue, one for each source
\* file of at least ten lines, also when an Extract run saw it before it was so.
C39_CompletedEventuallyExtracted ==
  \A s \in Sessions :
    [](CompletedSuccessful(s) =>
         <>(Halted \/ queue[s] >= PairsOf(SourceFileLines)))

(* --------------------------------- which failed sessions Reanalyze reaches *)

\* a Reanalyze run that ended without a fault passed a failed session to the Generator
ReanalyzedAFailedSession ==
  \E k \in 1..Len(pb.given) : pb.dir[pb.given[k]] = MarkerDoneFail

\* in a run over at most five session directories, a failed completed session among
\* them is passed to the Generator
C40_FailedAmongFirstFive ==
  (pb.pc = "done" /\ Len(FindAllSessions(pb.dir)) <= ReanalyzeBatch
     /\ \E s \in DOMAIN pb.dir : pb.dir[s] = MarkerDoneFail)
    => ReanalyzedAFailedSession

\* C40: wherever a failed completed session sits in the order of the directory names,
\* a Reanalyze run made while one exists passes at least one failed session to the
\* Generator.
C40_FailedSessionReanalyzed ==
  (pb.pc = "done" /\ \E s \in DOMAIN pb.dir : pb.dir[s] = MarkerDoneFail)
    => ReanalyzedAFailedSession

====
